---- MODULE Spec2Model ----
(***************************************************************************)
(* Container lifecycle state cache of the sensor                           *)
(* (src/pkg/sensor/container.go): the containerCache map, the              *)
(* ContainerInfo entries it points to, the callers that hold entry         *)
(* pointers, and the samples handed to the event monitor.                  *)
(*                                                                         *)
(* Entries are heap objects: the cache maps a container id to a pointer,   *)
(* and a caller that looked an entry up keeps its pointer after the entry  *)
(* has been deleted from the map.  Pointers are slots of heap, 0 is nil.   *)
(* An object that neither the map nor a caller references any more is      *)
(* garbage: its slot is freed and may be allocated again.                  *)
(*                                                                         *)
(* The module also covers the container filter of a subscription           *)
(* (containerFilter, container.go) in SpecFilter, and the registration of  *)
(* syscall and file open events with the event monitor (syscall.go,        *)
(* file.go): the life of the registrations and of the dummy tracepoint in  *)
(* SpecSyscall, the merging of the requesters' filters in SpecMerge.       *)
(***************************************************************************)
EXTENDS Integers, Sequences, FiniteSets, TLC

VARIABLES
    cache,      \* containerCache.cache: container id -> entry pointer (0: no key)
    heap,       \* the ContainerInfo object in each slot (FreeSlot: none)
    held,       \* per caller: the pointer its last lookupContainer returned
    emitted,    \* samples passed to EnqueueExternalSample by the latest call
    destroyed,  \* live pointers for which a DESTROYED sample has been enqueued
    last,       \* the latest call: operation, arguments, entry before the call
    pc,         \* per caller: position inside a stepwise Update (SpecRace)
    loc,        \* per caller: locals of a stepwise Update (SpecRace)
    containerIds,   \* containerFilter.containerIds: the ids accepted outright
    containerNames, \* containerFilter.containerNames
    imageIds,       \* containerFilter.imageIds
    imageGlobs,     \* containerFilter.imageGlobs: the compiled patterns
    flast,          \* the latest containerFilter call: function, event, result
    major,          \* the major version of the running kernel
    registered,     \* the events registered with the event monitor
    nextEventID,    \* the id the monitor gives to the next event it registers
    dummySyscallEventCount, \* Sensor.dummySyscallEventCount
    dummySyscallEventID,    \* Sensor.dummySyscallEventID
    eventMaps,      \* per subscription: its state and its subscriptionMap
    rlast,          \* the latest registration or teardown and the calls it made
    thr,            \* per subscription: its registration or teardown in steps
    mu,             \* the owner of containerCache's mutex (NoOwner: unlocked)
    dispatch        \* the path that hands samples to the decoders

\* the state of a containerFilter and of its latest call
filterVars == <<containerIds, containerNames, imageIds, imageGlobs, flast>>

\* the sensor's registrations with the event monitor
regVars == <<major, registered, nextEventID, dummySyscallEventCount,
             dummySyscallEventID, eventMaps, rlast, thr>>

vars == <<cache, heap, held, emitted, destroyed, last, pc, loc, filterVars,
          regVars, mu, dispatch>>

\* the number of subscriptions of a run
MaxSubs == 2

\* the number of filters of one registration
MaxFilters == 2

---------------------------------------------------------------------------
(* ContainerState, container.go:61-87 *)

ContainerStateUnknown == 0
ContainerStateCreated == 1
ContainerStatePaused == 2
ContainerStateRunning == 3
ContainerStateRestarting == 4
ContainerStateExited == 5
ContainerStateRemoving == 6

ContainerStates == ContainerStateUnknown..ContainerStateRemoving

(* ContainerRuntime, container.go:99-110 *)

ContainerRuntimeUnknown == 0
ContainerRuntimeDocker == 1

ContainerRuntimes == {ContainerRuntimeUnknown, ContainerRuntimeDocker}

---------------------------------------------------------------------------
(* Input domains *)

ContainerIDs == {"c1"}
Callers == {"w1", "w2"}

\* Calls that run to completion one at a time need one caller to show every
\* behaviour of a retained pointer; both callers run in SpecRace.
SeqCallers == {"w1"}

\* Name values: the zero value and one name
NameVals == {"", "web"}

\* raw wait statuses: 0 (exited, status 0) and 139 (SIGSEGV, core dumped)
ExitCodeVals == {0, 139}

\* The keys the callers of Spec combine freely in data
SeqKeys == {"State", "Name"}

\* The exported ContainerInfo fields the monitors report through Update.
\* ImageID, ImageName, Pid, JSONConfig and OCIConfig take the same branch of
\* the loop as Name and ExitCode (any field whose name is not "State").
DataKeys == {"State", "ExitCode", "Name"}

\* The reflection loop walks the struct fields from the last to the first
\* (container.go:345): State, then Runtime, then ExitCode, then Name.
FieldOrder == <<"State", "Runtime", "ExitCode", "Name">>

ZeroVals == [State |-> ContainerStateUnknown, ExitCode |-> 0, Name |-> ""]

\* data map[string]interface{}: keys is the set of keys present
DataSet ==
    { d \in [keys : SUBSET DataKeys,
             vals : [State : ContainerStates, ExitCode : ExitCodeVals, Name : NameVals]] :
        \A k \in DataKeys : k \notin d.keys => d.vals[k] = ZeroVals[k] }

NoData == [keys |-> {}, vals |-> ZeroVals]

\* The data of Spec: any State and Name report, and the exit report (the
\* exited state together with the raw wait status 139)
SeqDataSet ==
    {d \in DataSet :
        \/ d.keys \subseteq SeqKeys
        \/ /\ d.keys = {"State", "ExitCode"}
           /\ d.vals.State = ContainerStateExited
           /\ d.vals.ExitCode = 139}

---------------------------------------------------------------------------
(* newContainerInfo, container.go:209-215 *)

newContainerInfo(containerID) ==
    [ID |-> containerID, Name |-> "", ExitCode |-> 0,
     Runtime |-> ContainerRuntimeUnknown, State |-> ContainerStateUnknown]

\* a slot holding no object (container ids are not empty)
FreeSlot == newContainerInfo("")

---------------------------------------------------------------------------
(* unix.WaitStatus as used by enqueueContainerEvent, container.go:235-253 *)

\* The operators take the exit code as it is: the low 16 bits of an int32,
\* taken by % and \div, are those of the uint32 it converts to.
WsExited(ws) == ws % 128 = 0
WsSignaled(ws) == ws % 128 # 127 /\ ws % 128 # 0
WsCoreDump_CoreBitOnly(ws) == (ws \div 128) % 2 = 1

WsCoreDump(ws) == WsSignaled(ws) /\ (ws \div 128) % 2 = 1
WsExitStatus(ws) == (ws \div 256) % 256
WsSignal(ws) == ws % 128

\* the data map built by enqueueContainerEvent
EventData(info) ==
    [container_id |-> info.ID,
     name |-> info.Name,
     exit_code |-> info.ExitCode,
     exit_status |-> IF WsExited(info.ExitCode) THEN WsExitStatus(info.ExitCode) ELSE 0,
     exit_signal |-> IF WsSignaled(info.ExitCode) THEN WsSignal(info.ExitCode) ELSE 0,
     exit_core_dumped |-> WsCoreDump(info.ExitCode)]

\* one call of enqueueContainerEvent(eventID, sampleID, info); ptr is the
\* info pointer the call was given
enqueueContainerEvent(eventID, ptr, info) ==
    [eventID |-> eventID, info |-> ptr, data |-> EventData(info)]

---------------------------------------------------------------------------
(* ContainerInfo.Update, container.go:331-397 *)

\* lines 336-338
AdoptRuntime(info, runtime) ==
    IF info.Runtime = ContainerRuntimeUnknown
    THEN [info EXCEPT !.Runtime = runtime]
    ELSE info

\* variant: dataChanged is set for any differing field, State included
FieldChangesData_AnyField(info, f, data) ==
    /\ f \in data.keys
    /\ info[f] # data.vals[f]

\* lines 359-362: the non-State branch that sets dataChanged
FieldChangesData(info, f, data) ==
    /\ f \in data.keys
    /\ info[f] # data.vals[f]
    /\ f # "State"

\* variant: the State assignment is not guarded by the runtime
FieldIsSet_NoAuthority(info, runtime, f, data) ==
    /\ f \in data.keys
    /\ info[f] # data.vals[f]

\* lines 359-367: whether the field is assigned
FieldIsSet(info, runtime, f, data) ==
    /\ f \in data.keys
    /\ info[f] # data.vals[f]
    /\ (f = "State" => info.Runtime = runtime)

\* one iteration of the loop body, lines 346-368
UpdateField(acc, runtime, f, data) ==
    [info |-> IF FieldIsSet(acc.info, runtime, f, data)
              THEN [acc.info EXCEPT ![f] = data.vals[f]]
              ELSE acc.info,
     dataChanged |-> acc.dataChanged \/ FieldChangesData(acc.info, f, data)]

\* the loop, lines 345-369, from position i of FieldOrder
RECURSIVE UpdateFields(_, _, _, _)
UpdateFields(acc, runtime, data, i) ==
    IF i > Len(FieldOrder)
    THEN acc
    ELSE UpdateFields(UpdateField(acc, runtime, FieldOrder[i], data), runtime, data, i + 1)

\* lines 372-377
EmitsCreated(oldState, info) ==
    oldState < ContainerStateCreated

\* variant: the running threshold counts when crossed in either direction
EmitsRunning_EitherDirection(oldState, info) ==
    (oldState < ContainerStateRunning) # (info.State < ContainerStateRunning)

\* lines 378-384
EmitsRunning(oldState, info) ==
    oldState < ContainerStateRunning /\ info.State >= ContainerStateRunning

\* variant: the state before the call is not tested
EmitsExited_AnyLaterState(oldState, info) ==
    info.State >= ContainerStateRestarting

\* variant: the EXITED threshold is the exited state
EmitsExited_AtExited(oldState, info) ==
    oldState < ContainerStateExited /\ info.State >= ContainerStateExited

\* lines 385-391
EmitsExited(oldState, info) ==
    oldState < ContainerStateRestarting /\ info.State >= ContainerStateRestarting

\* variant: RUNNING is enqueued before CREATED
UpdateEvents_RunningFirst(ptr, info, oldState, dataChanged) ==
    IF info.State # oldState
    THEN (IF EmitsRunning(oldState, info)
          THEN <<enqueueContainerEvent("RUNNING", ptr, info)>> ELSE <<>>)
         \o (IF EmitsCreated(oldState, info)
             THEN <<enqueueContainerEvent("CREATED", ptr, info)>> ELSE <<>>)
         \o (IF EmitsExited(oldState, info)
             THEN <<enqueueContainerEvent("EXITED", ptr, info)>> ELSE <<>>)
    ELSE IF dataChanged
         THEN <<enqueueContainerEvent("UPDATED", ptr, info)>>
         ELSE <<>>

\* variant: the RUNNING branch enqueues the CREATED event id
UpdateEvents_RunningAsCreated(ptr, info, oldState, dataChanged) ==
    IF info.State # oldState
    THEN (IF EmitsCreated(oldState, info)
          THEN <<enqueueContainerEvent("CREATED", ptr, info)>> ELSE <<>>)
         \o (IF EmitsRunning(oldState, info)
             THEN <<enqueueContainerEvent("CREATED", ptr, info)>> ELSE <<>>)
         \o (IF EmitsExited(oldState, info)
             THEN <<enqueueContainerEvent("EXITED", ptr, info)>> ELSE <<>>)
    ELSE IF dataChanged
         THEN <<enqueueContainerEvent("UPDATED", ptr, info)>>
         ELSE <<>>

\* variant: UPDATED is not in an else branch of the state test
UpdateEvents_UpdatedAfterStateChange(ptr, info, oldState, dataChanged) ==
    (IF info.State # oldState
     THEN (IF EmitsCreated(oldState, info)
           THEN <<enqueueContainerEvent("CREATED", ptr, info)>> ELSE <<>>)
          \o (IF EmitsRunning(oldState, info)
              THEN <<enqueueContainerEvent("RUNNING", ptr, info)>> ELSE <<>>)
          \o (IF EmitsExited(oldState, info)
              THEN <<enqueueContainerEvent("EXITED", ptr, info)>> ELSE <<>>)
     ELSE <<>>)
    \o (IF dataChanged
        THEN <<enqueueContainerEvent("UPDATED", ptr, info)>>
        ELSE <<>>)

\* lines 371-397: the samples enqueued, in order
UpdateEvents(ptr, info, oldState, dataChanged) ==
    IF info.State # oldState
    THEN (IF EmitsCreated(oldState, info)
          THEN <<enqueueContainerEvent("CREATED", ptr, info)>> ELSE <<>>)
         \o (IF EmitsRunning(oldState, info)
             THEN <<enqueueContainerEvent("RUNNING", ptr, info)>> ELSE <<>>)
         \o (IF EmitsExited(oldState, info)
             THEN <<enqueueContainerEvent("EXITED", ptr, info)>> ELSE <<>>)
    ELSE IF dataChanged
         THEN <<enqueueContainerEvent("UPDATED", ptr, info)>>
         ELSE <<>>

\* the entry after a whole Update call
UpdatedInfo(info, runtime, data) ==
    UpdateFields([info |-> AdoptRuntime(info, runtime), dataChanged |-> FALSE],
                 runtime, data, 1)

---------------------------------------------------------------------------
(* State *)

Slots == 1..(Cardinality(ContainerIDs) + Cardinality(Callers))

Range(f) == {f[x] : x \in DOMAIN f}

\* the slots the garbage collector frees: referenced by neither map nor caller
Collect(h, c, hd) ==
    [s \in Slots |-> IF s \in Range(c) \cup Range(hd) THEN h[s] ELSE FreeSlot]

\* the slot a new object is allocated in
NewSlot(h) == CHOOSE s \in Slots : h[s] = FreeSlot /\ \A t \in Slots : t < s => h[t] # FreeSlot

\* an event without container id and without a container payload
NoEvent == [ContainerId |-> "", payload |-> "other", Type |-> "UNKNOWN",
            Name |-> "", ImageId |-> "", ImageName |-> <<>>]

NoCall == [op |-> "none", caller |-> "", id |-> "", ptr |-> 0,
           runtime |-> ContainerRuntimeUnknown, create |-> FALSE,
           data |-> NoData, old |-> FreeSlot, wasCached |-> FALSE]

NoLocals == [runtime |-> ContainerRuntimeUnknown, data |-> NoData,
             oldState |-> ContainerStateUnknown, dataChanged |-> FALSE, i |-> 1]

\* the dispatch path before its first sample: it runs, and has decoded
\* nothing
NoDispatch ==
    [alive |-> TRUE, samples |-> 0, decoder |-> "none", data |-> <<>>,
     result |-> "none"]

\* nobody holds the mutex
NoOwner == ""

\* the major versions of the kernels the sensor runs on
KernelMajors == {2, 3, 4}

\* the subscriptions of a run, each with its own event group
SubIDs == 1..MaxSubs

\* no registration yet
NoRegCall ==
    [op |-> "none", k |-> 0, events |-> <<>>, calls |-> <<>>,
     enterFilters |-> {}, exitFilters |-> {}, count |-> 0]

\* the registration or teardown of a subscription that has not begun: its
\* position, its eventID local, and what it has done to the dummy event
NoThread ==
    [pc |-> "idle", eventID |-> 0, callback |-> FALSE, triggers |-> 0,
     incs |-> 0, decs |-> 0, unregs |-> 0]

\* a sensor that has registered nothing: the counter and the event id are
\* the zero values of the Sensor struct
RegIdle ==
    /\ registered = {}
    /\ nextEventID = 1
    /\ dummySyscallEventCount = 0
    /\ dummySyscallEventID = 0
    /\ eventMaps = [k \in SubIDs |-> [state |-> "unused", subs |-> {}]]
    /\ rlast = NoRegCall
    /\ thr = [k \in SubIDs |-> NoThread]

\* no containerFilter call yet
NoFilterCall ==
    [op |-> "none", event |-> NoEvent, result |-> FALSE,
     before |-> [containerIds |-> {}, containerNames |-> {}, imageIds |-> {},
                 imageGlobs |-> {}]]

\* newContainerCache, container.go:131-136: an empty map; no containerFilter
\* has been built
Init ==
    /\ cache = [id \in ContainerIDs |-> 0]
    /\ heap = [s \in Slots |-> FreeSlot]
    /\ held = [p \in Callers |-> 0]
    /\ emitted = <<>>
    /\ destroyed = {}
    /\ last = NoCall
    /\ pc = [p \in Callers |-> "idle"]
    /\ loc = [p \in Callers |-> NoLocals]
    /\ mu = NoOwner
    /\ dispatch = NoDispatch
    /\ containerIds = {}
    /\ containerNames = {}
    /\ imageIds = {}
    /\ imageGlobs = {}
    /\ flast = NoFilterCall
    /\ major = CHOOSE m \in KernelMajors : TRUE
    /\ RegIdle

---------------------------------------------------------------------------
(* containerCache.lookupContainer, container.go:217-228 *)

\* the map after the call
LookupCache(c, h, containerID, create) ==
    IF c[containerID] = 0 /\ create
    THEN [c EXCEPT ![containerID] = NewSlot(h)]
    ELSE c

\* the heap after the call, before collection
LookupHeap(c, h, containerID, create) ==
    IF c[containerID] = 0 /\ create
    THEN [h EXCEPT ![NewSlot(h)] = newContainerInfo(containerID)]
    ELSE h

\* the pointer returned (0: nil)
LookupResult(c, h, containerID, create) ==
    LookupCache(c, h, containerID, create)[containerID]

lookupContainer(p, containerID, create) ==
    /\ pc[p] = "idle"
    /\ cache' = LookupCache(cache, heap, containerID, create)
    /\ held' = [held EXCEPT ![p] = LookupResult(cache, heap, containerID, create)]
    /\ heap' = Collect(LookupHeap(cache, heap, containerID, create), cache', held')
    /\ destroyed' = destroyed \cap (Range(cache') \cup Range(held'))
    /\ emitted' = <<>>
    /\ last' = [NoCall EXCEPT !.op = "lookupContainer", !.caller = p,
                              !.id = containerID, !.create = create,
                              !.ptr = cache'[containerID],
                              !.wasCached = cache[containerID] # 0]
    /\ UNCHANGED <<pc, loc, filterVars, regVars, mu, dispatch>>

(* containerCache.deleteContainer, container.go:186-207 *)

\* variant: the runtime is not compared
DeleteOk_AnyRuntime(c, h, containerID, runtime) ==
    c[containerID] # 0

\* lines 192-199: the final value of ok
DeleteOk(c, h, containerID, runtime) ==
    c[containerID] # 0 /\ runtime = h[c[containerID]].Runtime

\* variant: the key is not deleted
DeleteCache_KeepsKey(c, containerID, ok) ==
    c

\* line 195: the map after the call
DeleteCache(c, containerID, ok) ==
    IF ok THEN [c EXCEPT ![containerID] = 0] ELSE c

deleteContainer(containerID, runtime) ==
    LET ptr == cache[containerID]
        ok == DeleteOk(cache, heap, containerID, runtime)
    IN  /\ cache' = DeleteCache(cache, containerID, ok)
        /\ emitted' = IF ok
                      THEN <<enqueueContainerEvent("DESTROYED", ptr, heap[ptr])>>
                      ELSE <<>>
        /\ heap' = Collect(heap, cache', held)
        /\ destroyed' = (IF ok THEN destroyed \cup {ptr} ELSE destroyed)
                            \cap (Range(cache') \cup Range(held))
        /\ last' = [NoCall EXCEPT !.op = "deleteContainer", !.id = containerID,
                                  !.runtime = runtime, !.ptr = ptr,
                                  !.old = IF ptr # 0 THEN heap[ptr] ELSE FreeSlot,
                                  !.wasCached = ptr # 0]
        /\ UNCHANGED <<held, pc, loc, filterVars, regVars, mu, dispatch>>

(* ContainerInfo.Update called on the pointer the caller holds, as one step *)

Update(p, runtime, data) ==
    LET ptr == held[p]
        acc == UpdatedInfo(heap[ptr], runtime, data)
    IN  /\ pc[p] = "idle"
        /\ ptr # 0
        /\ heap' = [heap EXCEPT ![ptr] = acc.info]
        /\ emitted' = UpdateEvents(ptr, acc.info, heap[ptr].State, acc.dataChanged)
        /\ last' = [NoCall EXCEPT !.op = "Update", !.caller = p, !.id = heap[ptr].ID,
                                  !.ptr = ptr, !.runtime = runtime, !.data = data,
                                  !.old = heap[ptr],
                                  !.wasCached = cache[heap[ptr].ID] = ptr]
        /\ UNCHANGED <<cache, held, destroyed, pc, loc, filterVars, regVars, mu, dispatch>>

Next ==
    \/ \E p \in SeqCallers, id \in ContainerIDs, create \in BOOLEAN :
          lookupContainer(p, id, create)
    \/ \E id \in ContainerIDs, runtime \in ContainerRuntimes :
          deleteContainer(id, runtime)
    \/ \E p \in SeqCallers, runtime \in ContainerRuntimes, data \in SeqDataSet :
          Update(p, runtime, data)

Spec == Init /\ [][Next]_vars

---------------------------------------------------------------------------
(* The cache with entries of any wait status: the calls of Spec, with data  *)
(* that report a raw wait status in ExitCode.                               *)

\* raw wait statuses: exits with the status 0, 1 and 255, an exit whose
\* status has its low bit 7 set (128, 384), the signals 9 and 11 without and
\* with core dump, stops (127, 4991), continued (65535) and negative ints
\* (all bits set; signal 9 with core dump in the low bits)
WaitStatusVals ==
    {0, 256, 65280, 128, 384, 9, 11, 137, 139, 127, 4991, 65535, -1, -65399}

\* the data of a report of a wait status, alone or with the exited state
WaitDataSet ==
    {[keys |-> {"ExitCode"}, vals |-> [ZeroVals EXCEPT !.ExitCode = w]] :
        w \in WaitStatusVals}
    \cup {[keys |-> {"State", "ExitCode"},
           vals |-> [ZeroVals EXCEPT !.ExitCode = w,
                                     !.State = ContainerStateExited]] :
             w \in WaitStatusVals}

NextWait ==
    \/ \E p \in SeqCallers, id \in ContainerIDs : lookupContainer(p, id, TRUE)
    \/ \E id \in ContainerIDs : deleteContainer(id, ContainerRuntimeDocker)
    \/ \E p \in SeqCallers, data \in WaitDataSet :
          Update(p, ContainerRuntimeDocker, data)

SpecWait == Init /\ [][NextWait]_vars

---------------------------------------------------------------------------
(* The cache with data that carry the Runtime field: Runtime is an exported *)
(* field of ContainerInfo, so the loop of Update assigns it from data like  *)
(* any other field that is not State.                                       *)

\* the values of the keys a report does not carry
ZeroFields ==
    [State |-> ContainerStateUnknown, Runtime |-> ContainerRuntimeUnknown,
     ExitCode |-> 0, Name |-> ""]

\* reports of a state, a runtime and a name, in any combination
FieldDataSet ==
    { d \in [keys : SUBSET {"State", "Runtime", "Name"},
             vals : [State : {ContainerStateUnknown, ContainerStateCreated,
                              ContainerStateRunning},
                     Runtime : ContainerRuntimes,
                     ExitCode : {0},
                     Name : NameVals]] :
        \A k \in DOMAIN ZeroFields : k \notin d.keys => d.vals[k] = ZeroFields[k] }

NextFields ==
    \/ \E p \in SeqCallers, id \in ContainerIDs : lookupContainer(p, id, TRUE)
    \/ \E p \in SeqCallers, runtime \in ContainerRuntimes, data \in FieldDataSet :
          Update(p, runtime, data)

SpecFields == Init /\ [][NextFields]_vars

---------------------------------------------------------------------------
(* ContainerInfo.Update statement by statement, container.go:331-397.      *)
(* Update takes no lock: two callers holding the same pointer run its      *)
(* statements interleaved, each read and write of a field being one step.  *)
(* lookupContainer holds the cache mutex for its whole body and stays one  *)
(* step.                                                                   *)

\* the data the racing callers pass
RaceDataSet ==
    {d \in DataSet :
        \/ d.keys = {}
        \/ d.keys = {"State"} /\ d.vals.State \in {ContainerStateRunning, ContainerStateExited}}

\* the call: the arguments are bound
UpdateCall(p, runtime, data) ==
    /\ pc[p] = "idle"
    /\ held[p] # 0
    /\ loc' = [loc EXCEPT ![p] = [NoLocals EXCEPT !.runtime = runtime, !.data = data]]
    /\ pc' = [pc EXCEPT ![p] = "check"]
    /\ UNCHANGED <<cache, heap, held, emitted, destroyed, last, filterVars, regVars, mu, dispatch>>

\* line 336: the test of info.Runtime
UpdateCheckRuntime(p) ==
    /\ pc[p] = "check"
    /\ pc' = [pc EXCEPT ![p] = IF heap[held[p]].Runtime = ContainerRuntimeUnknown
                               THEN "adopt" ELSE "old"]
    /\ UNCHANGED <<cache, heap, held, emitted, destroyed, last, loc, filterVars, regVars, mu, dispatch>>

\* line 337: the assignment info.Runtime = runtime
UpdateAdoptRuntime(p) ==
    /\ pc[p] = "adopt"
    /\ heap' = [heap EXCEPT ![held[p]].Runtime = loc[p].runtime]
    /\ pc' = [pc EXCEPT ![p] = "old"]
    /\ UNCHANGED <<cache, held, emitted, destroyed, last, loc, filterVars, regVars, mu, dispatch>>

\* lines 340-341: oldState := info.State, dataChanged := false
UpdateReadOldState(p) ==
    /\ pc[p] = "old"
    /\ loc' = [loc EXCEPT ![p].oldState = heap[held[p]].State,
                          ![p].dataChanged = FALSE,
                          ![p].i = 1]
    /\ pc' = [pc EXCEPT ![p] = "loop"]
    /\ UNCHANGED <<cache, heap, held, emitted, destroyed, last, filterVars, regVars, mu, dispatch>>

\* lines 345-369: one iteration of the loop
UpdateLoopStep(p) ==
    LET acc == UpdateField([info |-> heap[held[p]], dataChanged |-> loc[p].dataChanged],
                           loc[p].runtime, FieldOrder[loc[p].i], loc[p].data)
    IN  /\ pc[p] = "loop"
        /\ heap' = [heap EXCEPT ![held[p]] = acc.info]
        /\ loc' = [loc EXCEPT ![p].dataChanged = acc.dataChanged,
                              ![p].i = loc[p].i + 1]
        /\ pc' = [pc EXCEPT ![p] = IF loc[p].i = Len(FieldOrder) THEN "emit" ELSE "loop"]
        /\ UNCHANGED <<cache, held, emitted, destroyed, last, filterVars, regVars, mu, dispatch>>

\* lines 371-397: the samples are enqueued and the call returns
UpdateEmit(p) ==
    /\ pc[p] = "emit"
    /\ emitted' = UpdateEvents(held[p], heap[held[p]], loc[p].oldState, loc[p].dataChanged)
    /\ last' = [NoCall EXCEPT !.op = "Update", !.caller = p, !.id = heap[held[p]].ID,
                              !.ptr = held[p], !.runtime = loc[p].runtime,
                              !.data = loc[p].data]
    /\ loc' = [loc EXCEPT ![p] = NoLocals]
    /\ pc' = [pc EXCEPT ![p] = "idle"]
    /\ UNCHANGED <<cache, heap, held, destroyed, filterVars, regVars, mu, dispatch>>

NextRace ==
    \/ \E p \in Callers, id \in ContainerIDs :
          lookupContainer(p, id, TRUE)
    \/ \E p \in Callers, runtime \in ContainerRuntimes, data \in RaceDataSet :
          UpdateCall(p, runtime, data)
    \/ \E p \in Callers : UpdateCheckRuntime(p)
    \/ \E p \in Callers : UpdateAdoptRuntime(p)
    \/ \E p \in Callers : UpdateReadOldState(p)
    \/ \E p \in Callers : UpdateLoopStep(p)
    \/ \E p \in Callers : UpdateEmit(p)

SpecRace == Init /\ [][NextRace]_vars

---------------------------------------------------------------------------
(* lookupContainer and deleteContainer statement by statement,             *)
(* container.go:186-228, with the cache's mutex.  Lock, the map read, the   *)
(* map write, Unlock and the enqueueing of the DESTROYED sample are steps   *)
(* of their own; the callers run concurrently.  A caller drops the pointer  *)
(* it holds when it begins a call.  Update takes no lock and is one step.   *)

\* the locals of a call that has not begun
LockIdle ==
    [op |-> "none", id |-> "", create |-> FALSE,
     runtime |-> ContainerRuntimeUnknown, info |-> 0, ok |-> FALSE,
     created |-> FALSE]

\* the pointers a caller's locals hold
LocalRefs(lc) == {lc[p].info : p \in Callers}

\* the heap without the objects that map, callers and locals do not reference
CollectLocked(h, c, hd, lc) ==
    [s \in Slots |->
        IF s \in Range(c) \cup Range(hd) \cup LocalRefs(lc) THEN h[s]
        ELSE FreeSlot]

\* what a step of these calls leaves alone
LockUnchanged == UNCHANGED <<filterVars, regVars, dispatch>>

\* a caller begins lookupContainer(containerID, create)
LookupCall(p, containerID, create) ==
    /\ pc[p] = "idle"
    /\ pc' = [pc EXCEPT ![p] = "lookup_lock"]
    /\ loc' = [loc EXCEPT ![p] = [LockIdle EXCEPT !.op = "lookupContainer",
                                                 !.id = containerID,
                                                 !.create = create]]
    /\ held' = [held EXCEPT ![p] = 0]
    /\ heap' = CollectLocked(heap, cache, held', loc')
    /\ destroyed' = destroyed \cap (Range(held') \cup LocalRefs(loc'))
    /\ UNCHANGED <<cache, emitted, last, mu>>
    /\ LockUnchanged

\* a caller begins deleteContainer(containerID, runtime)
DeleteCall(p, containerID, runtime) ==
    /\ pc[p] = "idle"
    /\ pc' = [pc EXCEPT ![p] = "delete_lock"]
    /\ loc' = [loc EXCEPT ![p] = [LockIdle EXCEPT !.op = "deleteContainer",
                                                 !.id = containerID,
                                                 !.runtime = runtime]]
    /\ held' = [held EXCEPT ![p] = 0]
    /\ heap' = CollectLocked(heap, cache, held', loc')
    /\ destroyed' = destroyed \cap (Range(held') \cup LocalRefs(loc'))
    /\ UNCHANGED <<cache, emitted, last, mu>>
    /\ LockUnchanged

CanLock_Always(owner) == TRUE

CanLock_UnlessDeleting(owner) ==
    IF owner = NoOwner THEN TRUE ELSE pc[owner] \in {"delete_read", "delete_key"}

\* sync.Mutex.Lock returns when nobody holds the mutex
CanLock(owner) == owner = NoOwner

\* cc.Lock(), container.go:191 and 218
Lock(p) ==
    /\ pc[p] \in {"lookup_lock", "delete_lock"}
    /\ CanLock(mu)
    /\ mu' = p
    /\ pc' = [pc EXCEPT ![p] = IF pc[p] = "lookup_lock" THEN "lookup_read"
                               ELSE "delete_read"]
    /\ UNCHANGED <<cache, heap, held, emitted, destroyed, last, loc>>
    /\ LockUnchanged

\* info := cc.cache[containerID], container.go:221
LookupRead(p) ==
    /\ pc[p] = "lookup_read"
    /\ loc' = [loc EXCEPT ![p].info = cache[loc[p].id]]
    /\ pc' = [pc EXCEPT ![p] = IF cache[loc[p].id] = 0 /\ loc[p].create
                               THEN "lookup_insert" ELSE "lookup_return"]
    /\ UNCHANGED <<cache, heap, held, emitted, destroyed, last, mu>>
    /\ LockUnchanged

\* container.go:223-224: the new entry and its key
LookupInsert(p) ==
    /\ pc[p] = "lookup_insert"
    /\ heap' = [heap EXCEPT ![NewSlot(heap)] = newContainerInfo(loc[p].id)]
    /\ cache' = [cache EXCEPT ![loc[p].id] = NewSlot(heap)]
    /\ loc' = [loc EXCEPT ![p].info = NewSlot(heap), ![p].created = TRUE]
    /\ pc' = [pc EXCEPT ![p] = "lookup_return"]
    /\ UNCHANGED <<held, emitted, destroyed, last, mu>>
    /\ LockUnchanged

\* return info, and the deferred cc.Unlock(), container.go:219 and 227
LookupReturn(p) ==
    /\ pc[p] = "lookup_return"
    /\ mu' = NoOwner
    /\ held' = [held EXCEPT ![p] = loc[p].info]
    /\ last' = [NoCall EXCEPT !.op = "lookupContainer", !.caller = p,
                              !.id = loc[p].id, !.create = loc[p].create,
                              !.ptr = loc[p].info,
                              !.wasCached = ~loc[p].created /\ loc[p].info # 0]
    /\ emitted' = <<>>
    /\ loc' = [loc EXCEPT ![p] = LockIdle]
    /\ pc' = [pc EXCEPT ![p] = "idle"]
    /\ heap' = CollectLocked(heap, cache, held', loc')
    /\ UNCHANGED <<cache, destroyed>>
    /\ LockUnchanged

\* info, ok := cc.cache[containerID], container.go:192
DeleteRead(p) ==
    /\ pc[p] = "delete_read"
    /\ loc' = [loc EXCEPT ![p].info = cache[loc[p].id],
                          ![p].ok = cache[loc[p].id] # 0]
    /\ pc' = [pc EXCEPT ![p] = "delete_key"]
    /\ UNCHANGED <<cache, heap, held, emitted, destroyed, last, mu>>
    /\ LockUnchanged

\* container.go:193-199: if the runtime is the runtime of the entry read,
\* the key is deleted; otherwise ok becomes false
DeleteKey(p) ==
    LET ok == loc[p].ok /\ loc[p].runtime = heap[loc[p].info].Runtime
    IN  /\ pc[p] = "delete_key"
        /\ loc' = [loc EXCEPT ![p].ok = ok]
        /\ cache' = DeleteCache(cache, loc[p].id, ok)
        /\ destroyed' = IF ok THEN destroyed \cup {loc[p].info}
                        ELSE destroyed
        /\ pc' = [pc EXCEPT ![p] = "delete_unlock"]
        /\ UNCHANGED <<heap, held, emitted, last, mu>>
        /\ LockUnchanged

AfterUnlock_KeptUnlessOk(owner, ok) == IF ok THEN NoOwner ELSE owner

\* the owner of the mutex after cc.Unlock(), container.go:200
AfterUnlock(owner, ok) == NoOwner

\* cc.Unlock(), container.go:200, and the return of a call that deleted
\* nothing
DeleteUnlock(p) ==
    /\ pc[p] = "delete_unlock"
    /\ mu' = AfterUnlock(mu, loc[p].ok)
    /\ IF loc[p].ok
       THEN /\ pc' = [pc EXCEPT ![p] = "delete_enqueue"]
            /\ UNCHANGED <<loc, last, emitted, heap>>
       ELSE /\ pc' = [pc EXCEPT ![p] = "idle"]
            /\ loc' = [loc EXCEPT ![p] = LockIdle]
            /\ last' = [NoCall EXCEPT !.op = "deleteContainer", !.caller = p,
                                      !.id = loc[p].id,
                                      !.runtime = loc[p].runtime,
                                      !.ptr = loc[p].info,
                                      !.wasCached = loc[p].info # 0]
            /\ emitted' = <<>>
            /\ heap' = CollectLocked(heap, cache, held, loc')
    /\ UNCHANGED <<cache, held, destroyed>>
    /\ LockUnchanged

\* container.go:202-206: the DESTROYED sample, and the return
DeleteEnqueue(p) ==
    /\ pc[p] = "delete_enqueue"
    /\ emitted' = <<enqueueContainerEvent("DESTROYED", loc[p].info,
                                          heap[loc[p].info])>>
    /\ last' = [NoCall EXCEPT !.op = "deleteContainer", !.caller = p,
                              !.id = loc[p].id, !.runtime = loc[p].runtime,
                              !.ptr = loc[p].info,
                              !.old = heap[loc[p].info], !.wasCached = TRUE]
    /\ loc' = [loc EXCEPT ![p] = LockIdle]
    /\ pc' = [pc EXCEPT ![p] = "idle"]
    /\ heap' = CollectLocked(heap, cache, held, loc')
    /\ destroyed' = destroyed \cap (Range(held) \cup LocalRefs(loc'))
    /\ UNCHANGED <<cache, held, mu>>
    /\ LockUnchanged

\* the reports of the callers of SpecLock: a container is running
LockDataSet ==
    {[keys |-> {"State"}, vals |-> [ZeroVals EXCEPT !.State = ContainerStateRunning]]}

\* a sensor whose callers have begun no call
InitLock ==
    /\ cache = [id \in ContainerIDs |-> 0]
    /\ heap = [s \in Slots |-> FreeSlot]
    /\ held = [p \in Callers |-> 0]
    /\ emitted = <<>>
    /\ destroyed = {}
    /\ last = NoCall
    /\ pc = [p \in Callers |-> "idle"]
    /\ loc = [p \in Callers |-> LockIdle]
    /\ mu = NoOwner
    /\ dispatch = NoDispatch
    /\ containerIds = {}
    /\ containerNames = {}
    /\ imageIds = {}
    /\ imageGlobs = {}
    /\ flast = NoFilterCall
    /\ major = CHOOSE m \in KernelMajors : TRUE
    /\ RegIdle

NextLock ==
    \E p \in Callers :
        \/ \E id \in ContainerIDs, create \in BOOLEAN : LookupCall(p, id, create)
        \/ \E id \in ContainerIDs, runtime \in ContainerRuntimes :
              DeleteCall(p, id, runtime)
        \/ Lock(p)
        \/ LookupRead(p)
        \/ LookupInsert(p)
        \/ LookupReturn(p)
        \/ DeleteRead(p)
        \/ DeleteKey(p)
        \/ DeleteUnlock(p)
        \/ DeleteEnqueue(p)
        \/ \E data \in LockDataSet : Update(p, ContainerRuntimeDocker, data)

SpecLock == InitLock /\ [][NextLock]_vars

---------------------------------------------------------------------------
(* containerFilter, container.go:461-594: the allow-list of a subscription. *)
(* FilterFunc decides whether an event passes, DoFunc runs on events for    *)
(* their side effect.  Strings that are matched against patterns are        *)
(* sequences of characters.                                                *)

\* container ids carried by events; "" is an event without container id
FilterIDs == {"", "c1", "c2"}

\* image names of container events, "" (unset), "a" and "a/b"
ImageNameVals == {<<>>, <<"a">>, <<"a", "/", "b">>}

\* the patterns of a configuration, "*" and "a/*"
GlobPatterns == {<<"*">>, <<"a", "/", "*">>}

\* the ContainerFilter messages a filter is built from
FilterConfigs ==
    [Ids : {{}, {"", "c1"}}, Names : {{}, {"", "web"}},
     ImageIds : {{}, {"", "i1"}},
     ImageNames : {{}, GlobPatterns \cup {<<>>}}]

\* events with a payload other than a container event
OtherEvents ==
    {[NoEvent EXCEPT !.ContainerId = id] : id \in FilterIDs}

\* container events: a lifecycle type, a name, an image id and an image name
ContainerEvents ==
    [ContainerId : FilterIDs, payload : {"container"},
     Type : {"CREATED", "DESTROYED"}, Name : {"", "web"},
     ImageId : {"", "i1"}, ImageName : ImageNameVals]

FilterEvents == OtherEvents \cup ContainerEvents

\* glob.Compile(pattern, '/') and Match, container.go:527 and 567: a "*"
\* stands for any run of characters other than the separator, every other
\* character for itself
RECURSIVE GlobMatch(_, _)
GlobMatch(g, name) ==
    IF g = <<>> THEN name = <<>>
    ELSE IF Head(g) = "*"
    THEN \E k \in 0..Len(name) :
            /\ \A j \in 1..k : name[j] # "/"
            /\ GlobMatch(Tail(g), SubSeq(name, k + 1, Len(name)))
    ELSE /\ name # <<>>
         /\ Head(name) = Head(g)
         /\ GlobMatch(Tail(g), Tail(name))

addContainerID_AnyId(ids, cid) == ids \cup {cid}

\* addContainerID, container.go:490-497: the empty id is never added
addContainerID(ids, cid) == IF cid # "" THEN ids \cup {cid} ELSE ids

removeContainerID_Keeps(ids, cid) == ids

\* removeContainerID, container.go:499-501
removeContainerID(ids, cid) == ids \ {cid}

\* addContainerName, container.go:503-510: the empty name is never added
addContainerName(names, cname) == IF cname # "" THEN names \cup {cname} ELSE names

\* addImageID, container.go:512-519: the empty id is never added
addImageID(imgs, iid) == IF iid # "" THEN imgs \cup {iid} ELSE imgs

\* addImageName, container.go:521-537: the empty pattern is never added
addImageName(globs, iname) == IF iname # <<>> THEN globs \cup {iname} ELSE globs

\* newContainerFilter, container.go:461-481
newContainerFilter(ecf) ==
    [containerIds |-> {v \in ecf.Ids : v \in addContainerID({}, v)},
     containerNames |-> {v \in ecf.Names : v \in addContainerName({}, v)},
     imageIds |-> {v \in ecf.ImageIds : v \in addImageID({}, v)},
     imageGlobs |-> {v \in ecf.ImageNames : v \in addImageName({}, v)}]

FastPath_ContainerEventsOnly(ids, e) ==
    e.payload = "container" /\ e.ContainerId \in ids

\* FilterFunc, container.go:543-548: the id is in the allow-set
FastPath(ids, e) == e.ContainerId \in ids

SlowPath_AnyEvent(names, imgs, globs, e) == e.ContainerId # ""

\* FilterFunc, container.go:550-578: a container event whose name, image id
\* or image name is allowed
SlowPath(names, imgs, globs, e) ==
    /\ e.payload = "container"
    /\ \/ e.Name \in names
       \/ e.ImageId \in imgs
       \/ /\ globs # {}
          /\ e.ImageName # <<>>
          /\ \E g \in globs : GlobMatch(g, e.ImageName)

Promoted_Never(ids, e) == ids

\* FilterFunc, container.go:555-571: an event accepted by the slow path adds
\* its id to the allow-set
Promoted(ids, e) == addContainerID(ids, e.ContainerId)

\* the filter of a new subscription
InitFilter ==
    /\ cache = [id \in ContainerIDs |-> 0]
    /\ heap = [s \in Slots |-> FreeSlot]
    /\ held = [p \in Callers |-> 0]
    /\ emitted = <<>>
    /\ destroyed = {}
    /\ last = NoCall
    /\ pc = [p \in Callers |-> "idle"]
    /\ loc = [p \in Callers |-> NoLocals]
    /\ mu = NoOwner
    /\ dispatch = NoDispatch
    /\ \E ecf \in FilterConfigs :
          LET cf == newContainerFilter(ecf)
          IN  /\ containerIds = cf.containerIds
              /\ containerNames = cf.containerNames
              /\ imageIds = cf.imageIds
              /\ imageGlobs = cf.imageGlobs
    /\ flast = NoFilterCall
    /\ major = CHOOSE m \in KernelMajors : TRUE
    /\ RegIdle

\* the four sets of the filter
FilterState ==
    [containerIds |-> containerIds, containerNames |-> containerNames,
     imageIds |-> imageIds, imageGlobs |-> imageGlobs]

\* containerFilter.FilterFunc, container.go:539-581
FilterFunc(e) ==
    LET fast == FastPath(containerIds, e)
        slow == SlowPath(containerNames, imageIds, imageGlobs, e)
    IN  /\ containerIds' = IF ~fast /\ slow THEN Promoted(containerIds, e)
                           ELSE containerIds
        /\ flast' = [op |-> "FilterFunc", event |-> e, result |-> fast \/ slow,
                     before |-> FilterState]
        /\ UNCHANGED <<containerNames, imageIds, imageGlobs>>
        /\ UNCHANGED <<cache, heap, held, emitted, destroyed, last, pc, loc, regVars, mu, dispatch>>

\* DoFunc, container.go:586-591: a DESTROYED container event
Evicts(e) == e.payload = "container" /\ e.Type = "DESTROYED"

\* containerFilter.DoFunc, container.go:583-594
DoFunc(e) ==
    /\ containerIds' = IF Evicts(e) THEN removeContainerID(containerIds, e.ContainerId)
                       ELSE containerIds
    /\ flast' = [op |-> "DoFunc", event |-> e, result |-> FALSE,
                 before |-> FilterState]
    /\ UNCHANGED <<containerNames, imageIds, imageGlobs>>
    /\ UNCHANGED <<cache, heap, held, emitted, destroyed, last, pc, loc, regVars, mu, dispatch>>

NextFilter ==
    \/ \E e \in FilterEvents : FilterFunc(e)
    \/ \E e \in FilterEvents : DoFunc(e)

SpecFilter == InitFilter /\ [][NextFilter]_vars

---------------------------------------------------------------------------
(* Filter expressions (api.Expression) and the kernel filter strings made   *)
(* from them.  An expression is a record with a type; a kernel filter       *)
(* string is the sequence of its tokens, the empty sequence being the       *)
(* empty string.  Values are written as they appear in a filter string.     *)

\* a nil *api.Expression
Nil == [type |-> "NIL"]

\* a nil wrapper value (*wrappers.Int64Value and the like)
NoValue == ""

\* expression.Identifier
Identifier(name) == [type |-> "IDENTIFIER", name |-> name]

\* expression.Value
Value(v) == [type |-> "VALUE", val |-> v]

\* a binary node
BinaryOp(type, lhs, rhs) == [type |-> type, lhs |-> lhs, rhs |-> rhs]

\* expression.Equal
Equal(lhs, rhs) == BinaryOp("EQ", lhs, rhs)

\* expression.Like
Like(lhs, rhs) == BinaryOp("LIKE", lhs, rhs)

\* expression.BitwiseAnd
BitwiseAnd(lhs, rhs) == BinaryOp("BITWISE_AND", lhs, rhs)

\* expression.LogicalOr: an absent operand yields the other operand
LogicalOr(lhs, rhs) ==
    IF lhs = Nil THEN rhs
    ELSE IF rhs = Nil THEN lhs
    ELSE BinaryOp("LOGICAL_OR", lhs, rhs)

\* expression.LogicalAnd: an absent operand yields the other operand
LogicalAnd(lhs, rhs) ==
    IF lhs = Nil THEN rhs
    ELSE IF rhs = Nil THEN lhs
    ELSE BinaryOp("LOGICAL_AND", lhs, rhs)

BinaryTypes == {"EQ", "LIKE", "BITWISE_AND", "LOGICAL_AND", "LOGICAL_OR"}

\* expression.NewExpression succeeds: every operator has its operands
RECURSIVE NewExpressionOk(_)
NewExpressionOk(expr) ==
    CASE expr.type \in {"IDENTIFIER", "VALUE"} -> TRUE
      [] expr.type \in BinaryTypes ->
            NewExpressionOk(expr.lhs) /\ NewExpressionOk(expr.rhs)
      [] OTHER -> FALSE

\* Expression.ValidateKernelFilter succeeds: every comparison has an
\* identifier on the left and a literal on the right
RECURSIVE ValidateKernelFilterOk(_)
ValidateKernelFilterOk(expr) ==
    CASE expr.type \in {"LOGICAL_AND", "LOGICAL_OR"} ->
            ValidateKernelFilterOk(expr.lhs) /\ ValidateKernelFilterOk(expr.rhs)
      [] expr.type \in {"EQ", "LIKE", "BITWISE_AND"} ->
            expr.lhs.type = "IDENTIFIER" /\ expr.rhs.type = "VALUE"
      [] OTHER -> FALSE

\* the kernel operator of a comparison
KernelOp(type) ==
    CASE type = "EQ" -> "=="
      [] type = "LIKE" -> "~"
      [] type = "BITWISE_AND" -> "&"

\* Expression.KernelFilterString: a comparison is field, operator, literal;
\* AND and OR join their operands, each in parentheses, by && and ||
RECURSIVE KernelFilterString(_)
KernelFilterString(expr) ==
    CASE expr.type = "LOGICAL_AND" ->
            <<"(">> \o KernelFilterString(expr.lhs) \o <<")", "&&", "(">>
                \o KernelFilterString(expr.rhs) \o <<")">>
      [] expr.type = "LOGICAL_OR" ->
            <<"(">> \o KernelFilterString(expr.lhs) \o <<")", "||", "(">>
                \o KernelFilterString(expr.rhs) \o <<")">>
      [] OTHER -> <<expr.lhs.name, KernelOp(expr.type), expr.rhs.val>>

\* the number a literal stands for
Num == ("0" :> 0) @@ ("1" :> 1) @@ ("2" :> 2) @@ ("3" :> 3)

\* the file names a pattern matches besides itself
LikePairs == {<<"/etc/*", "/etc/passwd">>}

\* one comparison of a field value with a literal
Compare(op, fieldVal, lit) ==
    CASE op = "==" -> fieldVal = lit
      [] op = "~" -> fieldVal = lit \/ <<lit, fieldVal>> \in LikePairs
      [] op = "&" -> \E b \in {1, 2} :
                        /\ (Num[fieldVal] \div b) % 2 = 1
                        /\ (Num[lit] \div b) % 2 = 1

\* the value of an expression for a sample (a function from field names to
\* values)
RECURSIVE EvalExpr(_, _)
EvalExpr(expr, smp) ==
    CASE expr.type = "LOGICAL_AND" -> EvalExpr(expr.lhs, smp) /\ EvalExpr(expr.rhs, smp)
      [] expr.type = "LOGICAL_OR" -> EvalExpr(expr.lhs, smp) \/ EvalExpr(expr.rhs, smp)
      [] OTHER -> Compare(KernelOp(expr.type), smp[expr.lhs.name], expr.rhs.val)

\* The kernel's evaluation of a filter string for a sample: comparisons and
\* parenthesized filters, joined by && and, binding less tightly, by ||.
\* Each operator yields the value and the tokens that follow.
RECURSIVE KernelOr(_, _)
RECURSIVE KernelAnd(_, _)
RECURSIVE KernelTerm(_, _)
KernelTerm(toks, smp) ==
    IF Head(toks) = "("
    THEN LET inner == KernelOr(Tail(toks), smp)
         IN  [v |-> inner.v, rest |-> Tail(inner.rest)]
    ELSE [v |-> Compare(toks[2], smp[toks[1]], toks[3]),
          rest |-> SubSeq(toks, 4, Len(toks))]

KernelAnd(toks, smp) ==
    LET l == KernelTerm(toks, smp)
    IN  IF l.rest # <<>> /\ Head(l.rest) = "&&"
        THEN LET r == KernelAnd(Tail(l.rest), smp)
             IN  [v |-> l.v /\ r.v, rest |-> r.rest]
        ELSE l

KernelOr(toks, smp) ==
    LET l == KernelAnd(toks, smp)
    IN  IF l.rest # <<>> /\ Head(l.rest) = "||"
        THEN LET r == KernelOr(Tail(l.rest), smp)
             IN  [v |-> l.v \/ r.v, rest |-> r.rest]
        ELSE l

\* the kernel passes the sample: there is no filter, or the filter is true
KernelAccepts(filter, smp) == filter = <<>> \/ KernelOr(filter, smp).v

---------------------------------------------------------------------------
(* Syscall events, syscall.go.  A SyscallEventFilter is a record of its     *)
(* type, its deprecated Id, Arg0..Arg5 and Ret fields (NoValue: nil) and    *)
(* its filter expression.                                                  *)

ArgNames == <<"arg0", "arg1", "arg2", "arg3", "arg4", "arg5">>

NoArgs == [a \in {ArgNames[i] : i \in DOMAIN ArgNames} |-> NoValue]

containsIDFilter_AnyOperand(expr) == expr # Nil

RECURSIVE containsIDFilter_OrOfAny(_)
containsIDFilter_OrOfAny(expr) ==
    CASE expr = Nil -> FALSE
      [] expr.type \in {"LOGICAL_AND", "LOGICAL_OR"} ->
            containsIDFilter_OrOfAny(expr.lhs) \/ containsIDFilter_OrOfAny(expr.rhs)
      [] expr.type = "EQ" ->
            expr.lhs.type = "IDENTIFIER" /\ expr.lhs.name = "id"
      [] OTHER -> FALSE

\* containsIDFilter, syscall.go:70-95
RECURSIVE containsIDFilter(_)
containsIDFilter(expr) ==
    CASE expr = Nil -> FALSE
      [] expr.type = "LOGICAL_AND" ->
            containsIDFilter(expr.lhs) \/ containsIDFilter(expr.rhs)
      [] expr.type = "LOGICAL_OR" ->
            containsIDFilter(expr.lhs) /\ containsIDFilter(expr.rhs)
      [] expr.type = "EQ" ->
            expr.lhs.type = "IDENTIFIER" /\ expr.lhs.name = "id"
      [] OTHER -> FALSE

\* rewriteSyscallEventFilter, syscall.go:108-160: Arg0..Arg5 of an enter
\* filter, in this order
RECURSIVE AndArgs(_, _, _)
AndArgs(expr, args, i) ==
    IF i > Len(ArgNames) THEN expr
    ELSE AndArgs(IF args[ArgNames[i]] # NoValue
                 THEN LogicalAnd(Equal(Identifier(ArgNames[i]),
                                       Value(args[ArgNames[i]])), expr)
                 ELSE expr,
                 args, i + 1)

\* rewriteSyscallEventFilter, syscall.go:97-171: the filter after the call
rewriteSyscallEventFilter(sef) ==
    LET withId == IF sef.Id # NoValue
                  THEN LogicalAnd(Equal(Identifier("id"), Value(sef.Id)),
                                  sef.FilterExpression)
                  ELSE sef.FilterExpression
    IN  CASE sef.Type = "ENTER" ->
                [sef EXCEPT !.Id = NoValue, !.Args = NoArgs,
                            !.FilterExpression = AndArgs(withId, sef.Args, 1)]
          [] sef.Type = "EXIT" ->
                [sef EXCEPT !.Id = NoValue, !.Ret = NoValue,
                            !.FilterExpression =
                                IF sef.Ret # NoValue
                                THEN LogicalAnd(Equal(Identifier("ret"),
                                                      Value(sef.Ret)), withId)
                                ELSE withId]
          [] OTHER ->
                [sef EXCEPT !.Id = NoValue, !.FilterExpression = withId]

\* registerSyscallEvents, syscall.go:201-215: the rewritten filter is kept
SyscallFilterPasses(expr) ==
    /\ containsIDFilter(expr)
    /\ NewExpressionOk(expr)
    /\ ValidateKernelFilterOk(expr)

\* registerSyscallEvents, syscall.go:197-226: the kernel filter strings of
\* the filters of a type that are kept
SyscallFilterStrings(events, type) ==
    LET rew == [i \in DOMAIN events |-> rewriteSyscallEventFilter(events[i])]
    IN  {KernelFilterString(rew[i].FilterExpression) :
            i \in {j \in DOMAIN events :
                      /\ SyscallFilterPasses(rew[j].FilterExpression)
                      /\ rew[j].Type = type}}

\* the orders in which a range over a map yields its keys
KeyOrders(keys) ==
    {o \in [1..Cardinality(keys) -> keys] :
        \A i, j \in DOMAIN o : i # j => o[i] # o[j]}

RECURSIVE JoinFilters_And(_)
JoinFilters_And(order) ==
    IF order = <<>> THEN <<>>
    ELSE IF Len(order) = 1 THEN <<"(">> \o order[1] \o <<")">>
    ELSE <<"(">> \o order[1] \o <<")", "&&">> \o JoinFilters_And(Tail(order))

\* syscall.go:233-237, 313-317, file.go:133-137: each string in parentheses,
\* joined by " || "
RECURSIVE JoinFilters(_)
JoinFilters(order) ==
    IF order = <<>> THEN <<>>
    ELSE IF Len(order) = 1 THEN <<"(">> \o order[1] \o <<")">>
    ELSE <<"(">> \o order[1] \o <<")", "||">> \o JoinFilters(Tail(order))

\* the filter of the dummy tracepoint, syscall.go:259 and 267
DummyFilter == <<"id", "==", "0x7fffffff">>

\* the dummy tracepoint, syscall.go:253
DummyEventName == "raw_syscalls/sys_enter"

\* syscall.go:319
ExitEventName == "raw_syscalls/sys_exit"

\* syscall.go:174-175
syscallNewEnterKprobeAddress == "syscall_trace_enter_phase1"

syscallOldEnterKprobeAddress == "syscall_trace_enter"

---------------------------------------------------------------------------
(* The calls of a registration.  A registration works on the sensor's and   *)
(* the monitor's state st: the registered events, the next event id, the    *)
(* dummy event's counter and id, the subscriptions of the caller's          *)
(* subscriptionMap, and the calls made so far.  The monitor decides whether *)
(* a registration succeeds.                                                *)

\* the state a registration starts from
CallState ==
    [registered |-> registered, next |-> nextEventID,
     count |-> dummySyscallEventCount, dummyID |-> dummySyscallEventID,
     subs |-> {}, calls |-> <<>>]

\* one call of the monitor or of the subscriptionMap
MonitorCall(fn, name, group, filter, ok, id) ==
    [fn |-> fn, name |-> name, group |-> group, filter |-> filter,
     ok |-> ok, id |-> id]

\* EventMonitor.RegisterTracepoint and RegisterKprobe: a new event with a new
\* id, or an error
RegisterEvent(st, fn, name, group, filter, ok) ==
    [st EXCEPT
        !.registered = IF ok
                       THEN @ \cup {[id |-> st.next, fn |-> fn, name |-> name,
                                     group |-> group, filter |-> filter]}
                       ELSE @,
        !.next = IF ok THEN @ + 1 ELSE @,
        !.calls = Append(@, MonitorCall(fn, name, group, filter, ok,
                                        IF ok THEN st.next ELSE 0))]

\* EventMonitor.UnregisterEvent
UnregisterEvent(st, eventID) ==
    [st EXCEPT
        !.registered = {e \in @ : e.id # eventID},
        !.calls = Append(@, MonitorCall("UnregisterEvent", "", 0, <<>>,
                                        \E e \in st.registered : e.id = eventID,
                                        eventID))]

\* subscriptionMap.subscribe, and the assignment of s.unregister: the new
\* subscription has no filter
Subscribe(st, eventID, unregister) ==
    [st EXCEPT
        !.subs = @ \cup {[eventID |-> eventID, unregister |-> unregister,
                          filter |-> Nil]},
        !.calls = Append(@, MonitorCall("subscribe", "", 0, <<>>, unregister,
                                        eventID))]

registerDummy_NoGroupBelow3(st, mj, groupID, ok) ==
    LET r == RegisterEvent(st, "RegisterTracepoint", DummyEventName, 0,
                           DummyFilter, ok)
    IN  IF st.count + 1 = 1
        THEN IF ok THEN [r EXCEPT !.count = st.count + 1, !.dummyID = st.next]
             ELSE r
        ELSE [st EXCEPT !.count = @ + 1]

\* registerSyscallEvents, syscall.go:253-274: the dummy tracepoint
registerDummy(st, mj, groupID, ok) ==
    IF mj < 3
    THEN RegisterEvent(st, "RegisterTracepoint", DummyEventName, groupID,
                       DummyFilter, ok)
    ELSE IF st.count + 1 = 1
    THEN LET r == RegisterEvent(st, "RegisterTracepoint", DummyEventName, 0,
                                DummyFilter, ok)
         IN  IF ok THEN [r EXCEPT !.count = st.count + 1, !.dummyID = st.next]
             ELSE [r EXCEPT !.count = st.count + 1 - 1]
    ELSE [st EXCEPT !.count = @ + 1]

registerEnterKprobe_TriesBoth(st, mj, groupID, filter, okNew, okOld) ==
    LET first == RegisterEvent(st, "RegisterKprobe", syscallNewEnterKprobeAddress,
                               groupID, filter, okNew)
        second == RegisterEvent(first, "RegisterKprobe",
                                syscallOldEnterKprobeAddress, groupID, filter,
                                okOld)
    IN  IF okOld THEN Subscribe(second, second.next - 1, mj >= 3)
        ELSE second

\* registerSyscallEvents, syscall.go:276-309: the enter kprobe, by its new
\* address or else by its old one, and its subscription
registerEnterKprobe(st, mj, groupID, filter, okNew, okOld) ==
    LET first == RegisterEvent(st, "RegisterKprobe", syscallNewEnterKprobeAddress,
                               groupID, filter, okNew)
        second == IF okNew THEN first
                  ELSE RegisterEvent(first, "RegisterKprobe",
                                     syscallOldEnterKprobeAddress, groupID,
                                     filter, okOld)
    IN  IF okNew \/ okOld THEN Subscribe(second, second.next - 1, mj >= 3)
        ELSE second

registerExit_DropsSubsOnFailure(st, groupID, filter, ok) ==
    LET r == RegisterEvent(st, "RegisterTracepoint", ExitEventName, groupID,
                           filter, ok)
    IN  IF ok THEN Subscribe(r, r.next - 1, FALSE)
        ELSE [r EXCEPT !.subs = {}]

\* registerSyscallEvents, syscall.go:312-329: the exit tracepoint
registerExit(st, groupID, filter, ok) ==
    LET r == RegisterEvent(st, "RegisterTracepoint", ExitEventName, groupID,
                           filter, ok)
    IN  IF ok THEN Subscribe(r, r.next - 1, FALSE) ELSE r

\* what the monitor answers to the registrations of one call
Outcomes == [dummy : BOOLEAN, kNew : BOOLEAN, kOld : BOOLEAN, exit : BOOLEAN]

\* the sensor, the monitor and subscription k after a call that ended in st
Registered(k, st, op, events, enterFilters, exitFilters) ==
    /\ registered' = st.registered
    /\ nextEventID' = st.next
    /\ dummySyscallEventCount' = st.count
    /\ dummySyscallEventID' = st.dummyID
    /\ eventMaps' = [eventMaps EXCEPT ![k] = [state |-> "live", subs |-> st.subs]]
    /\ rlast' = [op |-> op, k |-> k, events |-> events, calls |-> st.calls,
                 enterFilters |-> enterFilters, exitFilters |-> exitFilters,
                 count |-> dummySyscallEventCount]
    /\ UNCHANGED <<major, thr, cache, heap, held, emitted, destroyed, last, pc,
                   loc, filterVars, mu, dispatch>>

\* registerSyscallEvents, syscall.go:188-330, for the new subscription k with
\* event group k
registerSyscallEvents(k, events, out) ==
    /\ eventMaps[k].state = "unused"
    /\ LET enterFilters == SyscallFilterStrings(events, "ENTER")
           exitFilters == SyscallFilterStrings(events, "EXIT")
       IN  \E eo \in KeyOrders(enterFilters), xo \in KeyOrders(exitFilters) :
              LET st1 == IF enterFilters # {}
                         THEN registerEnterKprobe(
                                  registerDummy(CallState, major, k, out.dummy),
                                  major, k, JoinFilters(eo), out.kNew, out.kOld)
                         ELSE CallState
                  st2 == IF exitFilters # {}
                         THEN registerExit(st1, k, JoinFilters(xo), out.exit)
                         ELSE st1
              IN  Registered(k, st2, "registerSyscallEvents", events,
                             enterFilters, exitFilters)

\* the unregister callbacks of syscall.go:302-307, one after the other
RECURSIVE RunUnregister(_, _)
RunUnregister(st, n) ==
    IF n = 0 THEN st
    ELSE LET eventID == st.dummyID
             dec == [st EXCEPT !.count = @ - 1]
         IN  RunUnregister(IF dec.count = 0 THEN UnregisterEvent(dec, eventID)
                           ELSE dec,
                           n - 1)

\* the end of subscription k: the unregister callback of each of its
\* subscriptions runs once
Teardown(k) ==
    /\ eventMaps[k].state = "live"
    /\ LET st == RunUnregister(CallState,
                    Cardinality({sub \in eventMaps[k].subs : sub.unregister}))
       IN  /\ registered' = st.registered
           /\ dummySyscallEventCount' = st.count
           /\ eventMaps' = [eventMaps EXCEPT ![k] = [state |-> "closed", subs |-> {}]]
           /\ rlast' = [op |-> "Teardown", k |-> k, events |-> <<>>,
                        calls |-> st.calls, enterFilters |-> {},
                        exitFilters |-> {}, count |-> dummySyscallEventCount]
    /\ UNCHANGED <<major, nextEventID, dummySyscallEventID, thr>>
    /\ UNCHANGED <<cache, heap, held, emitted, destroyed, last, pc, loc, filterVars,
                   mu, dispatch>>

\* a sensor on some kernel that has registered nothing
InitSyscall ==
    /\ cache = [id \in ContainerIDs |-> 0]
    /\ heap = [s \in Slots |-> FreeSlot]
    /\ held = [p \in Callers |-> 0]
    /\ emitted = <<>>
    /\ destroyed = {}
    /\ last = NoCall
    /\ pc = [p \in Callers |-> "idle"]
    /\ loc = [p \in Callers |-> NoLocals]
    /\ mu = NoOwner
    /\ dispatch = NoDispatch
    /\ containerIds = {}
    /\ containerNames = {}
    /\ imageIds = {}
    /\ imageGlobs = {}
    /\ flast = NoFilterCall
    /\ major \in KernelMajors
    /\ RegIdle

\* a syscall filter with nothing set
NoSef == [Type |-> "ENTER", Id |-> NoValue, Args |-> NoArgs, Ret |-> NoValue,
          FilterExpression |-> Nil]

\* the filter lists of the subscriptions: one enter filter, one exit filter,
\* both, and a filter that names no syscall
SyscallRequests ==
    { <<[NoSef EXCEPT !.Id = "1"]>>,
      <<[NoSef EXCEPT !.Type = "EXIT", !.Id = "1"]>>,
      <<[NoSef EXCEPT !.Id = "1"], [NoSef EXCEPT !.Type = "EXIT", !.Id = "2"]>>,
      <<[NoSef EXCEPT !.Args = [NoArgs EXCEPT !["arg0"] = "5"]]>> }

NextSyscall ==
    \/ \E k \in SubIDs, events \in SyscallRequests, out \in Outcomes :
          registerSyscallEvents(k, events, out)
    \/ \E k \in SubIDs : Teardown(k)

SpecSyscall == InitSyscall /\ [][NextSyscall]_vars

---------------------------------------------------------------------------
(* File open events, file.go.  A FileEventFilter is a record of its type,   *)
(* its deprecated Filename, FilenamePattern, OpenFlagsMask and              *)
(* CreateModeMask fields (NoValue: nil) and its filter expression.          *)

\* file.go:29
fsDoSysOpenKprobeAddress == "do_sys_open"

\* variant: FilenamePattern is kept when Filename is set
rewriteFileEventFilter_KeepsPattern(fef) ==
    LET named == IF fef.Filename # NoValue
                 THEN LogicalAnd(Equal(Identifier("filename"),
                                       Value(fef.Filename)),
                                 fef.FilterExpression)
                 ELSE IF fef.FilenamePattern # NoValue
                 THEN LogicalAnd(Like(Identifier("filename"),
                                      Value(fef.FilenamePattern)),
                                 fef.FilterExpression)
                 ELSE fef.FilterExpression
        flagged == IF fef.OpenFlagsMask # NoValue
                   THEN LogicalAnd(BitwiseAnd(Identifier("flags"),
                                              Value(fef.OpenFlagsMask)), named)
                   ELSE named
        moded == IF fef.CreateModeMask # NoValue
                 THEN LogicalAnd(BitwiseAnd(Identifier("mode"),
                                            Value(fef.CreateModeMask)), flagged)
                 ELSE flagged
    IN  [fef EXCEPT !.Filename = NoValue,
                    !.FilenamePattern = IF fef.Filename # NoValue THEN @
                                        ELSE NoValue,
                    !.OpenFlagsMask = NoValue, !.CreateModeMask = NoValue,
                    !.FilterExpression = moded]

\* rewriteFileEventFilter, file.go:51-86: the filter after the call
rewriteFileEventFilter(fef) ==
    LET named == IF fef.Filename # NoValue
                 THEN LogicalAnd(Equal(Identifier("filename"),
                                       Value(fef.Filename)),
                                 fef.FilterExpression)
                 ELSE IF fef.FilenamePattern # NoValue
                 THEN LogicalAnd(Like(Identifier("filename"),
                                      Value(fef.FilenamePattern)),
                                 fef.FilterExpression)
                 ELSE fef.FilterExpression
        flagged == IF fef.OpenFlagsMask # NoValue
                   THEN LogicalAnd(BitwiseAnd(Identifier("flags"),
                                              Value(fef.OpenFlagsMask)), named)
                   ELSE named
        moded == IF fef.CreateModeMask # NoValue
                 THEN LogicalAnd(BitwiseAnd(Identifier("mode"),
                                            Value(fef.CreateModeMask)), flagged)
                 ELSE flagged
    IN  [fef EXCEPT !.Filename = NoValue, !.FilenamePattern = NoValue,
                    !.OpenFlagsMask = NoValue, !.CreateModeMask = NoValue,
                    !.FilterExpression = moded]

\* registerFileEvents, file.go:98-104: the rewritten filters of the open
\* requesters
OpenFilters(events) ==
    {rewriteFileEventFilter(events[i]).FilterExpression :
        i \in {j \in DOMAIN events : events[j].Type = "OPEN"}}

FileWildcard_AllAbsent(events) == OpenFilters(events) = {Nil}

FileWildcard_OrInvalid(events) ==
    \E e \in OpenFilters(events) :
        e = Nil \/ ~(NewExpressionOk(e) /\ ValidateKernelFilterOk(e))

\* registerFileEvents, file.go:96-107: an open requester has no filter
FileWildcard(events) == Nil \in OpenFilters(events)

\* registerFileEvents, file.go:108-121: the kernel filter strings of the
\* filters that are kept
FileFilterStrings(events) ==
    {KernelFilterString(expr) :
        expr \in {e \in OpenFilters(events) :
                     /\ e # Nil
                     /\ NewExpressionOk(e)
                     /\ ValidateKernelFilterOk(e)}}

\* registerFileEvents, file.go:142-153: the kprobe and its subscription
registerOpenKprobe(st, groupID, filterString, ok) ==
    LET r == RegisterEvent(st, "RegisterKprobe", fsDoSysOpenKprobeAddress,
                           groupID, filterString, ok)
    IN  IF ok THEN Subscribe(r, r.next - 1, FALSE) ELSE r

\* registerFileEvents, file.go:88-153, for the new subscription k with event
\* group k; rlast.enterFilters holds the filters map
registerFileEvents(k, events, ok) ==
    /\ eventMaps[k].state = "unused"
    /\ LET wildcard == FileWildcard(events)
           filters == FileFilterStrings(events)
       IN  IF (~wildcard /\ filters = {}) \/ (wildcard /\ Len(events) = 0)
           THEN Registered(k, CallState, "registerFileEvents", events, filters, {})
           ELSE \E o \in KeyOrders(filters) :
                   Registered(k,
                              registerOpenKprobe(CallState, k,
                                  IF wildcard THEN <<>> ELSE JoinFilters(o), ok),
                              "registerFileEvents", events, filters, {})

\* a file filter with nothing set
NoFef == [Type |-> "OPEN", Filename |-> NoValue, FilenamePattern |-> NoValue,
          OpenFlagsMask |-> NoValue, CreateModeMask |-> NoValue,
          FilterExpression |-> Nil]

\* the filters of file requesters: set by deprecated fields or by an
\* expression, or not at all, for open events and for no type
FileFilters ==
    { [NoFef EXCEPT !.Filename = "/etc/passwd"],
      [NoFef EXCEPT !.FilenamePattern = "/etc/*"],
      [NoFef EXCEPT !.Filename = "/etc/passwd", !.FilenamePattern = "/etc/*"],
      [NoFef EXCEPT !.OpenFlagsMask = "1"],
      [NoFef EXCEPT !.Filename = "/tmp/x", !.CreateModeMask = "2"],
      [NoFef EXCEPT !.FilterExpression =
                        Equal(Identifier("filename"), Value("/tmp/x"))],
      [NoFef EXCEPT !.FilterExpression =
                        Equal(Identifier("filename"), Identifier("flags"))],
      NoFef,
      [NoFef EXCEPT !.Type = "UNKNOWN"],
      [NoFef EXCEPT !.Type = "UNKNOWN", !.Filename = "/etc/passwd"] }

\* the lists of at most MaxFilters filters
FileEventLists == UNION {[1..n -> FileFilters] : n \in 0..MaxFilters}

---------------------------------------------------------------------------
(* One registration with any list of filters: what the requesters' filters  *)
(* become.                                                                 *)

\* the filters of syscall requesters: set by deprecated fields or by an
\* expression, with and without a test of id, for enter, exit and no type
SyscallFilters ==
    LET id1 == Equal(Identifier("id"), Value("1"))
        id2 == Equal(Identifier("id"), Value("2"))
        arg5 == Equal(Identifier("arg0"), Value("5"))
    IN  { [NoSef EXCEPT !.Id = "1"],
          [NoSef EXCEPT !.FilterExpression = id1],
          [NoSef EXCEPT !.Id = "2", !.Args = [NoArgs EXCEPT !["arg0"] = "5"]],
          [NoSef EXCEPT !.Id = "1", !.Ret = "0"],
          NoSef,
          [NoSef EXCEPT !.Args = [NoArgs EXCEPT !["arg0"] = "5"]],
          [NoSef EXCEPT !.FilterExpression = arg5],
          [NoSef EXCEPT !.FilterExpression = LogicalOr(id1, arg5)],
          [NoSef EXCEPT !.FilterExpression = LogicalOr(id1, id2)],
          [NoSef EXCEPT !.FilterExpression =
                            Equal(Identifier("id"), Identifier("arg0"))],
          [NoSef EXCEPT !.FilterExpression = Equal(Identifier("id"), Nil)],
          [NoSef EXCEPT !.FilterExpression = LogicalAnd(id1, arg5)],
          [NoSef EXCEPT !.FilterExpression = Like(Identifier("id"), Value("1"))],
          [NoSef EXCEPT !.Type = "EXIT", !.Id = "1", !.Ret = "0"],
          [NoSef EXCEPT !.Type = "EXIT", !.FilterExpression = id2],
          [NoSef EXCEPT !.Type = "EXIT", !.Ret = "0"],
          [NoSef EXCEPT !.Type = "UNKNOWN", !.Id = "1"] }

\* the lists of at most MaxFilters filters
SyscallEventLists == UNION {[1..n -> SyscallFilters] : n \in 0..MaxFilters}

NextMerge ==
    \/ \E events \in SyscallEventLists, out \in Outcomes :
          registerSyscallEvents(1, events, out)
    \/ \E events \in FileEventLists, ok \in BOOLEAN :
          registerFileEvents(1, events, ok)

SpecMerge == InitSyscall /\ [][NextMerge]_vars

---------------------------------------------------------------------------
(* registerSyscallEvents and the unregister callback statement by          *)
(* statement, syscall.go:232-310.  The registrations and the teardowns of   *)
(* different subscriptions run concurrently; each access of                 *)
(* dummySyscallEventCount (atomic) and of dummySyscallEventID, and each      *)
(* call of the monitor, is one step.  Every subscription asks for one       *)
(* syscall enter filter.                                                    *)

\* how often the teardown of one subscription is triggered
MaxTriggers == 2

\* the request of a stepwise registration
StepEvents == <<[NoSef EXCEPT !.Id = "1"]>>

\* its enter filter, syscall.go:232-237
StepFilter ==
    JoinFilters(CHOOSE o \in KeyOrders(SyscallFilterStrings(StepEvents, "ENTER")) :
                    TRUE)

\* what a step leaves alone besides the registration state
StepUnchanged ==
    UNCHANGED <<major, rlast, cache, heap, held, emitted, destroyed, last, pc,
                loc, filterVars, mu, dispatch>>

\* syscall.go:194-263: the filters are made; on a kernel of major version 3
\* or more the counter is incremented, and the dummy event is registered
\* next only if the counter is then 1
RegBegin(k) ==
    /\ eventMaps[k].state = "unused"
    /\ thr[k].pc = "idle"
    /\ eventMaps' = [eventMaps EXCEPT ![k].state = "registering"]
    /\ IF major < 3
       THEN /\ thr' = [thr EXCEPT ![k].pc = "dummy"]
            /\ UNCHANGED dummySyscallEventCount
       ELSE /\ dummySyscallEventCount' = dummySyscallEventCount + 1
            /\ thr' = [thr EXCEPT
                          ![k].pc = IF dummySyscallEventCount + 1 = 1
                                    THEN "dummy" ELSE "kprobe",
                          ![k].incs = @ + 1]
    /\ UNCHANGED <<registered, nextEventID, dummySyscallEventID>>
    /\ StepUnchanged

\* syscall.go:256-259 and 264-267: RegisterTracepoint for the dummy event
RegDummy(k, ok) ==
    /\ thr[k].pc = "dummy"
    /\ LET st == RegisterEvent(CallState, "RegisterTracepoint", DummyEventName,
                               IF major < 3 THEN k ELSE 0, DummyFilter, ok)
       IN  /\ registered' = st.registered
           /\ nextEventID' = st.next
           /\ thr' = [thr EXCEPT
                         ![k].pc = IF major < 3 THEN "kprobe"
                                   ELSE IF ok THEN "setid" ELSE "undo",
                         ![k].eventID = IF ok THEN nextEventID ELSE 0]
    /\ UNCHANGED <<dummySyscallEventCount, dummySyscallEventID, eventMaps>>
    /\ StepUnchanged

\* syscall.go:270: the increment is taken back
RegUndo(k) ==
    /\ thr[k].pc = "undo"
    /\ dummySyscallEventCount' = dummySyscallEventCount - 1
    /\ thr' = [thr EXCEPT ![k].pc = "kprobe", ![k].incs = @ - 1]
    /\ UNCHANGED <<registered, nextEventID, dummySyscallEventID, eventMaps>>
    /\ StepUnchanged

\* syscall.go:272
RegSetID(k) ==
    /\ thr[k].pc = "setid"
    /\ dummySyscallEventID' = thr[k].eventID
    /\ thr' = [thr EXCEPT ![k].pc = "kprobe"]
    /\ UNCHANGED <<registered, nextEventID, dummySyscallEventCount, eventMaps>>
    /\ StepUnchanged

\* syscall.go:283-309: the enter kprobe, the subscription and its callback;
\* these statements touch neither the counter nor dummySyscallEventID
RegKprobe(k, okNew, okOld) ==
    /\ thr[k].pc = "kprobe"
    /\ LET st == registerEnterKprobe(CallState, major, k, StepFilter, okNew, okOld)
       IN  /\ registered' = st.registered
           /\ nextEventID' = st.next
           /\ eventMaps' = [eventMaps EXCEPT
                               ![k] = [state |-> "live", subs |-> st.subs]]
           /\ thr' = [thr EXCEPT
                         ![k].pc = "registered",
                         ![k].callback = \E sub \in st.subs : sub.unregister]
    /\ UNCHANGED <<dummySyscallEventCount, dummySyscallEventID>>
    /\ StepUnchanged

TeardownRuns_Always(state) == TRUE

\* a trigger of the teardown ends a live subscription; the teardown of a
\* subscription that has ended does nothing
TeardownRuns(state) == state = "live"

\* the teardown of subscription k is triggered: the subscription leaves the
\* map and its callback, if it has one, begins
Trigger(k) ==
    /\ eventMaps[k].state \in {"live", "closed"}
    /\ thr[k].triggers < MaxTriggers
    /\ IF TeardownRuns(eventMaps[k].state)
       THEN /\ eventMaps' = [eventMaps EXCEPT
                                ![k] = [state |-> "closed", subs |-> {}]]
            /\ thr' = [thr EXCEPT
                          ![k].pc = IF thr[k].callback THEN "read" ELSE "done",
                          ![k].triggers = @ + 1]
       ELSE /\ thr' = [thr EXCEPT ![k].triggers = @ + 1]
            /\ UNCHANGED eventMaps
    /\ UNCHANGED <<registered, nextEventID, dummySyscallEventCount,
                   dummySyscallEventID>>
    /\ StepUnchanged

\* syscall.go:303
TdRead(k) ==
    /\ thr[k].pc = "read"
    /\ thr' = [thr EXCEPT ![k].pc = "dec", ![k].eventID = dummySyscallEventID]
    /\ UNCHANGED <<registered, nextEventID, dummySyscallEventCount,
                   dummySyscallEventID, eventMaps>>
    /\ StepUnchanged

\* syscall.go:304
TdDec(k) ==
    /\ thr[k].pc = "dec"
    /\ dummySyscallEventCount' = dummySyscallEventCount - 1
    /\ thr' = [thr EXCEPT
                  ![k].pc = IF dummySyscallEventCount - 1 = 0
                            THEN "unreg" ELSE "done",
                  ![k].decs = @ + 1]
    /\ UNCHANGED <<registered, nextEventID, dummySyscallEventID, eventMaps>>
    /\ StepUnchanged

\* syscall.go:305
TdUnreg(k) ==
    /\ thr[k].pc = "unreg"
    /\ registered' = UnregisterEvent(CallState, thr[k].eventID).registered
    /\ thr' = [thr EXCEPT ![k].pc = "done", ![k].unregs = @ + 1]
    /\ UNCHANGED <<nextEventID, dummySyscallEventCount, dummySyscallEventID,
                   eventMaps>>
    /\ StepUnchanged

NextSteps ==
    \E k \in SubIDs :
        \/ RegBegin(k)
        \/ \E ok \in BOOLEAN : RegDummy(k, ok)
        \/ RegUndo(k)
        \/ RegSetID(k)
        \/ \E okNew, okOld \in BOOLEAN : RegKprobe(k, okNew, okOld)
        \/ Trigger(k)
        \/ TdRead(k)
        \/ TdDec(k)
        \/ TdUnreg(k)

SpecSteps == InitSyscall /\ [][NextSteps]_vars

---------------------------------------------------------------------------
(* Container events, container.go:399-457.  A ContainerEventFilter is a     *)
(* record of its type, a number, and its filter expression.                *)

\* containerEventTypes, container.go:32-41: the types of the fields of a
\* container event
containerEventTypes ==
    [name |-> "STRING", image_id |-> "STRING", image_name |-> "STRING",
     host_pid |-> "SINT32", exit_code |-> "SINT32", exit_status |-> "UINT32",
     exit_signal |-> "UINT32", exit_core_dumped |-> "BOOL"]

\* the integer field types
IntegerTypes == {"SINT32", "UINT32"}

\* the type of a literal
ValueType(v) == IF v \in DOMAIN Num THEN "INTEGER" ELSE "STRING"

\* Expression.Validate succeeds: every identifier is a field of the types,
\* a literal is compared with a field of its type, LIKE is used on strings
\* and the bitwise AND on integers; both sides of AND and OR are valid
RECURSIVE ValidateOk(_, _)
ValidateOk(expr, types) ==
    CASE expr.type \in {"LOGICAL_AND", "LOGICAL_OR"} ->
            ValidateOk(expr.lhs, types) /\ ValidateOk(expr.rhs, types)
      [] expr.type \in {"EQ", "LIKE", "BITWISE_AND"} ->
            /\ expr.lhs.type = "IDENTIFIER"
            /\ expr.rhs.type = "VALUE"
            /\ expr.lhs.name \in DOMAIN types
            /\ LET t == types[expr.lhs.name]
                   v == ValueType(expr.rhs.val)
               IN  CASE expr.type = "LIKE" -> t = "STRING" /\ v = "STRING"
                     [] expr.type = "BITWISE_AND" ->
                            t \in IntegerTypes /\ v = "INTEGER"
                     [] OTHER -> (t = "STRING" /\ v = "STRING")
                                 \/ (t \in IntegerTypes /\ v = "INTEGER")
      [] OTHER -> FALSE

\* the names of the external events newContainerCache registers,
\* container.go:138-181, by container event type
ContainerEventNames ==
    <<"CONTAINER_CREATED", "CONTAINER_RUNNING", "CONTAINER_EXITED",
      "CONTAINER_DESTROYED", "CONTAINER_UPDATED">>

\* the event id the cache holds for a container event type
\* (containerCreatedEventID and the like), container.go:415-426
containerEventID(t) ==
    (CHOOSE e \in registered : e.name = ContainerEventNames[t]).id

\* subscriptionMap.unsubscribe
Unsubscribe(st, eventID) ==
    [st EXCEPT
        !.subs = {sub \in @ : sub.eventID # eventID},
        !.calls = Append(@, MonitorCall("unsubscribe", "", 0, <<>>, TRUE,
                                        eventID))]

\* s.filter = expr, container.go:455
AttachFilter(st, eventID, expr) ==
    [st EXCEPT
        !.subs = {IF sub.eventID = eventID THEN [sub EXCEPT !.filter = expr]
                  ELSE sub : sub \in @}]

\* the first loop of registerContainerEvents, container.go:409-431: the
\* filters and the subscriptions after the requests, in their order.  A
\* request whose type is none of the five is skipped.
RECURSIVE CollectContainerEvents(_, _)
CollectContainerEvents(st, events) ==
    IF events = <<>> THEN [st |-> st, filters |-> [t \in 1..5 |-> Nil]]
    ELSE LET front == CollectContainerEvents(
                          st, SubSeq(events, 1, Len(events) - 1))
             cef == events[Len(events)]
             t == cef.Type
         IN  IF t < 1 \/ t > 5 THEN front
             ELSE [st |-> IF \E sub \in front.st.subs :
                                sub.eventID = containerEventID(t)
                          THEN front.st
                          ELSE Subscribe(front.st, containerEventID(t), FALSE),
                   filters |-> [front.filters EXCEPT
                                   ![t] = LogicalOr(@, cef.FilterExpression)]]

\* the combined filter of a type can be attached, container.go:438-454
ContainerFilterOk_Always(expr) == TRUE

ContainerFilterOk(expr) ==
    NewExpressionOk(expr) /\ ValidateOk(expr, containerEventTypes)

\* the second loop of registerContainerEvents, container.go:433-456, from
\* type t on: a type without filter is left alone, a filter that cannot be
\* made or is not valid ends the subscription, any other filter is attached
RECURSIVE AttachContainerFilters(_, _, _)
AttachContainerFilters(st, filters, t) ==
    IF t > 5 THEN st
    ELSE AttachContainerFilters(
             IF filters[t] = Nil THEN st
             ELSE IF ~ContainerFilterOk(filters[t])
                  THEN Unsubscribe(st, containerEventID(t))
                  ELSE AttachFilter(st, containerEventID(t), filters[t]),
             filters, t + 1)

\* registerContainerEvents, container.go:399-457, for the new subscription k
registerContainerEvents(k, events) ==
    /\ eventMaps[k].state = "unused"
    /\ LET c == CollectContainerEvents(CallState, events)
           st == AttachContainerFilters(c.st, c.filters, 1)
       IN  Registered(k, st, "registerContainerEvents", events, {}, {})

\* a sensor whose container cache has registered its five events,
\* container.go:131-184
InitContainerEvents ==
    /\ cache = [id \in ContainerIDs |-> 0]
    /\ heap = [s \in Slots |-> FreeSlot]
    /\ held = [p \in Callers |-> 0]
    /\ emitted = <<>>
    /\ destroyed = {}
    /\ last = NoCall
    /\ pc = [p \in Callers |-> "idle"]
    /\ loc = [p \in Callers |-> NoLocals]
    /\ mu = NoOwner
    /\ dispatch = NoDispatch
    /\ containerIds = {}
    /\ containerNames = {}
    /\ imageIds = {}
    /\ imageGlobs = {}
    /\ flast = NoFilterCall
    /\ major = CHOOSE m \in KernelMajors : TRUE
    /\ registered = {[id |-> t, fn |-> "RegisterExternalEvent",
                      name |-> ContainerEventNames[t], group |-> 0,
                      filter |-> <<>>] : t \in 1..5}
    /\ nextEventID = 6
    /\ dummySyscallEventCount = 0
    /\ dummySyscallEventID = 0
    /\ eventMaps = [k \in SubIDs |-> [state |-> "unused", subs |-> {}]]
    /\ rlast = NoRegCall
    /\ thr = [k \in SubIDs |-> NoThread]

\* the filter expressions of container event requesters: none, two valid
\* ones, an unknown field, LIKE on an integer field, a comparison without
\* its literal
ContainerExprs ==
    {Nil,
     Equal(Identifier("name"), Value("web")),
     Equal(Identifier("image_id"), Value("i1")),
     Equal(Identifier("bogus"), Value("web")),
     Like(Identifier("host_pid"), Value("1")),
     Equal(Identifier("name"), Nil)}

\* the container event filters: created, running and destroyed requests and
\* requests of the types 0 and 6, which are none
ContainerEventFilters ==
    [Type : {0, 1, 2, 4, 6}, FilterExpression : ContainerExprs]

ContainerEventLists ==
    UNION {[1..n -> ContainerEventFilters] : n \in 0..MaxFilters}

NextContainerEvents ==
    \E events \in ContainerEventLists : registerContainerEvents(1, events)

SpecContainerEvents == InitContainerEvents /\ [][NextContainerEvents]_vars

---------------------------------------------------------------------------
(* The decoders: decodeSyscallTraceEnter and decodeSysExit                  *)
(* (syscall.go:39-68), decodeDoSysOpen (file.go:37-49) and                  *)
(* newContainerEvent (container.go:258-287).  The data of a sample maps a   *)
(* field name to the dynamic type of its value; NoField is a key that is    *)
(* not in the map.                                                         *)

\* the number of samples the dispatch path is given
MaxSamples == 3

NoField == ""

Decoders ==
    {"decodeSyscallTraceEnter", "decodeSysExit", "decodeDoSysOpen",
     "newContainerEvent"}

\* the type assertions data[field].(type) of a decoder
Asserted(decoder) ==
    CASE decoder = "decodeSyscallTraceEnter" ->
            [id |-> "int64", arg0 |-> "uint64", arg1 |-> "uint64",
             arg2 |-> "uint64", arg3 |-> "uint64", arg4 |-> "uint64",
             arg5 |-> "uint64"]
      [] decoder = "decodeSysExit" -> [id |-> "int64", ret |-> "int64"]
      [] decoder = "decodeDoSysOpen" ->
            [filename |-> "string", flags |-> "int32", mode |-> "int32"]
      [] decoder = "newContainerEvent" ->
            [image_id |-> "string", image_name |-> "string",
             host_pid |-> "int32", exit_code |-> "int32",
             exit_status |-> "uint32", exit_signal |-> "uint32",
             exit_core_dumped |-> "bool", container_id |-> "string"]

\* the fields a decoder reads by the two-valued assertion
\* s, ok := data[field].(string), container.go:274-279
Checked(decoder) ==
    IF decoder = "newContainerEvent" THEN {"docker_config", "oci_config"}
    ELSE {}

\* a decoder's result for a sample: a type assertion on a missing key or on
\* a value of another type panics; no decoder returns an error
Decode(decoder, data) ==
    IF \A f \in DOMAIN Asserted(decoder) : data[f] = Asserted(decoder)[f]
    THEN "event"
    ELSE "panic"

\* a type other than the given one
OtherType(type) == IF type = "string" THEN "int64" ELSE "string"

\* the samples of a decoder: every field as the decoder expects it, or one
\* field missing or of another type
Samples(decoder) ==
    LET want == [f \in DOMAIN Asserted(decoder) \cup Checked(decoder) |->
                    IF f \in Checked(decoder) THEN "string"
                    ELSE Asserted(decoder)[f]]
    IN  {want}
        \cup UNION {{[want EXCEPT ![f] = NoField],
                      [want EXCEPT ![f] = OtherType(want[f])]} :
                        f \in DOMAIN want}

\* the dispatch path calls the decoder of a sample; a panic of the decoder
\* ends the process
Dispatch(decoder, data) ==
    /\ dispatch.alive
    /\ dispatch.samples < MaxSamples
    /\ dispatch' = [alive |-> Decode(decoder, data) # "panic",
                    samples |-> dispatch.samples + 1,
                    decoder |-> decoder, data |-> data,
                    result |-> Decode(decoder, data)]
    /\ UNCHANGED <<cache, heap, held, emitted, destroyed, last, pc, loc,
                   filterVars, regVars, mu>>

NextDecode ==
    \E decoder \in Decoders : \E data \in Samples(decoder) :
        Dispatch(decoder, data)

SpecDecode == Init /\ [][NextDecode]_vars

---------------------------------------------------------------------------
(* Properties of single calls.  last describes the latest call and the      *)
(* entry before it, emitted the samples the call enqueued.                 *)

\* the event ids of a sequence of samples, in order
Types(samples) == [i \in DOMAIN samples |-> samples[i].eventID]

\* how many samples of a sequence carry the event id
CountOf(samples, eventID) ==
    Cardinality({i \in DOMAIN samples : samples[i].eventID = eventID})

\* the entry the latest call acted on, as it is now
LastEntry == heap[last.ptr]

\* the non-State keys of the latest call's data that differ from the entry
\* as it was before the call
LastDiffering ==
    {k \in last.data.keys \ {"State"} : last.data.vals[k] # last.old[k]}

\* the lifecycle events whose threshold lies in (old, new], in the fixed order
Crossed(old, new) ==
    (IF old < 1 /\ new >= 1 THEN <<"CREATED">> ELSE <<>>)
    \o (IF old < 3 /\ new >= 3 THEN <<"RUNNING">> ELSE <<>>)
    \o (IF old < 4 /\ new >= 4 THEN <<"EXITED">> ELSE <<>>)

\* C1: an Update that changes the state enqueues exactly the threshold
\* events the change crosses, in the order CREATED, RUNNING, EXITED; an
\* authoritative Update of a fresh entry to running enqueues CREATED, RUNNING.
C1_ThresholdEventsInOrder ==
    last.op = "Update" =>
        /\ LastEntry.State # last.old.State =>
               Types(emitted) = Crossed(last.old.State, LastEntry.State)
        /\ ( /\ last.old = newContainerInfo(last.id)
             /\ "State" \in last.data.keys
             /\ last.data.vals.State = 3 )
           => Types(emitted) = <<"CREATED", "RUNNING">>

C1_Witness ==
    /\ last.op = "Update"
    /\ last.old = newContainerInfo(last.id)
    /\ last.runtime = ContainerRuntimeDocker
    /\ last.data.keys = {"State"}
    /\ last.data.vals.State = 3
    /\ LastEntry.State = 3
    /\ Len(emitted) = 2

C3_DeleteMismatchChangesNothing ==
    ( /\ last.op = "deleteContainer"
      /\ (~last.wasCached \/ last.old.Runtime # last.runtime) )
    => /\ emitted = <<>>
       /\ cache[last.id] = last.ptr
       /\ last.ptr # 0 => heap[last.ptr] = last.old
       /\ last.ptr \notin destroyed

C3_Witness ==
    /\ last.op = "deleteContainer"
    /\ last.wasCached
    /\ last.old.Runtime = ContainerRuntimeDocker
    /\ last.runtime = ContainerRuntimeUnknown
    /\ last.old.State = 3

\* C4: deleteContainer with the entry's runtime removes the key, enqueues
\* exactly one DESTROYED sample with the entry's values, and a following
\* lookupContainer(id, false) returns nil.
C4_DeleteMatchRemovesAndDestroys ==
    ( /\ last.op = "deleteContainer"
      /\ last.wasCached
      /\ last.old.Runtime = last.runtime )
    => /\ cache[last.id] = 0
       /\ LookupResult(cache, heap, last.id, FALSE) = 0
       /\ Len(emitted) = 1
       /\ emitted[1].eventID = "DESTROYED"
       /\ emitted[1].info = last.ptr
       /\ emitted[1].data.container_id = last.old.ID
       /\ emitted[1].data.name = last.old.Name
       /\ emitted[1].data.exit_code = last.old.ExitCode

C4_Witness ==
    /\ last.op = "deleteContainer"
    /\ last.wasCached
    /\ last.old.Runtime = ContainerRuntimeDocker
    /\ last.runtime = ContainerRuntimeDocker
    /\ last.old.Name = "web"
    /\ last.old.ExitCode = 139
    /\ last.old.State = 5
    /\ Len(emitted) = 1
    /\ emitted[1].data.exit_code = 139

\* C5: Update enqueues EXITED exactly when the state changed from below
\* restarting to restarting or above.
C5_ExitedIffCrossesRestarting ==
    last.op = "Update" =>
        /\ CountOf(emitted, "EXITED") <= 1
        /\ CountOf(emitted, "EXITED") = 1
           <=> ( /\ LastEntry.State # last.old.State
                 /\ last.old.State < 4
                 /\ LastEntry.State >= 4 )

C5_Witness ==
    /\ last.op = "Update"
    /\ last.old.State = 3
    /\ LastEntry.State = 4
    /\ CountOf(emitted, "EXITED") = 1

LifecycleEvents == {"CREATED", "RUNNING", "EXITED"}

\* C7 as stated: one Update enqueues at most one of CREATED, RUNNING, EXITED.
C7_AtMostOneLifecycleEvent ==
    last.op = "Update" =>
        Cardinality({i \in DOMAIN emitted : emitted[i].eventID \in LifecycleEvents}) <= 1

\* C7 amended: one Update enqueues each of CREATED, RUNNING, EXITED at most
\* once (up to all three together), and none of them together with UPDATED.
C7_EachLifecycleEventAtMostOnce ==
    last.op = "Update" =>
        /\ \A t \in LifecycleEvents : CountOf(emitted, t) <= 1
        /\ Len(emitted) <= 3
        /\ CountOf(emitted, "UPDATED") >= 1 =>
               \A t \in LifecycleEvents : CountOf(emitted, t) = 0

C7_Witness ==
    /\ last.op = "Update"
    /\ last.old.State = 0
    /\ LastEntry.State = 5
    /\ Types(emitted) = <<"CREATED", "RUNNING", "EXITED">>

\* C8: an Update by a runtime that is not the entry's authority, whose data
\* differs from the entry in State only, changes no field and enqueues nothing.
C8_ForeignStateChangeIgnored ==
    ( /\ last.op = "Update"
      /\ last.old.Runtime # ContainerRuntimeUnknown
      /\ last.runtime # last.old.Runtime
      /\ "State" \in last.data.keys
      /\ last.data.vals.State # last.old.State
      /\ LastDiffering = {} )
    => /\ LastEntry = last.old
       /\ emitted = <<>>

C8_Witness ==
    /\ last.op = "Update"
    /\ last.old.Runtime = ContainerRuntimeDocker
    /\ last.runtime = ContainerRuntimeUnknown
    /\ last.data.keys = {"State", "Name"}
    /\ last.data.vals.State = 5
    /\ last.old.State = 3
    /\ last.data.vals.Name = last.old.Name
    /\ last.old.Name = "web"

\* C10: no CREATED, RUNNING, EXITED or UPDATED sample is enqueued for an entry
\* for which DESTROYED has been enqueued.
C10_RemovalIsTerminal ==
    \A i \in DOMAIN emitted :
        emitted[i].eventID # "DESTROYED" => emitted[i].info \notin destroyed

\* C9: once the Runtime of an entry is a known runtime it never changes, for
\* as long as the entry exists, however the statements of concurrent Update
\* calls on the entry interleave.
C9_RuntimeAdoptedOnce ==
    [][ \A s \in Slots :
          ( /\ heap[s] # FreeSlot
            /\ heap'[s] # FreeSlot
            /\ heap[s].Runtime # ContainerRuntimeUnknown )
          => heap'[s].Runtime = heap[s].Runtime ]_vars

---------------------------------------------------------------------------
(* Properties of the container filter.  flast describes the latest call,    *)
(* its event, its result and the filter before it.                         *)

\* C11: FilterFunc returns true for an event of any payload type whose
\* container id is in the allow-set, and leaves the filter as it was.
C11_FastPathAcceptsAndKeepsState ==
    ( /\ flast.op = "FilterFunc"
      /\ flast.event.ContainerId \in flast.before.containerIds )
    => /\ flast.result
       /\ FilterState = flast.before

\* a configured id is accepted with a payload that no name, image id or
\* pattern of the filter allows
C11_Witness ==
    /\ flast.op = "FilterFunc"
    /\ flast.event.ContainerId = "c1"
    /\ flast.event.ContainerId \in flast.before.containerIds
    /\ flast.event.payload = "other"
    /\ flast.before.containerNames = {}
    /\ flast.before.imageIds = {}
    /\ flast.before.imageGlobs = {}
    /\ flast.result

\* C12: a FilterFunc call that accepts a container event by the slow path for
\* a non-empty id outside the allow-set adds the id; an id leaves the
\* allow-set only when DoFunc processes a DESTROYED event for it; and while
\* the id is in the allow-set every FilterFunc call for it returns true.
C12_PromotedUntilDestroyed ==
    [][ /\ ( /\ flast'.op = "FilterFunc"
             /\ flast'.result
             /\ flast'.event.ContainerId # ""
             /\ flast'.event.ContainerId \notin containerIds )
           => flast'.event.ContainerId \in containerIds'
        /\ \A x \in containerIds :
              x \notin containerIds'
              => /\ flast'.op = "DoFunc"
                 /\ flast'.event.payload = "container"
                 /\ flast'.event.Type = "DESTROYED"
                 /\ flast'.event.ContainerId = x
        /\ ( /\ flast'.op = "FilterFunc"
             /\ flast'.event.ContainerId \in containerIds )
           => flast'.result ]_vars

\* an id that is not configured is accepted with a payload that is not a
\* container event: it was promoted before
C12_Witness ==
    /\ flast.op = "FilterFunc"
    /\ flast.event.ContainerId = "c2"
    /\ flast.event.payload = "other"
    /\ flast.result

\* C13: FilterFunc returns false for an event that is not a container event
\* and whose id is outside the allow-set, and whenever FilterFunc returns
\* false the filter is as it was.
C13_SlowPathOnlyForContainerEvents ==
    /\ ( /\ flast.op = "FilterFunc"
         /\ flast.event.payload # "container"
         /\ flast.event.ContainerId \notin flast.before.containerIds )
       => ~flast.result /\ FilterState = flast.before
    /\ ( flast.op = "FilterFunc" /\ ~flast.result )
       => FilterState = flast.before

\* an event that is not a container event is rejected by a filter that has
\* names, image ids and patterns
C13_Witness ==
    /\ flast.op = "FilterFunc"
    /\ flast.event.payload = "other"
    /\ flast.event.ContainerId = "c2"
    /\ flast.before.containerNames # {}
    /\ flast.before.imageGlobs # {}
    /\ ~flast.result

\* C14: after DoFunc has processed a DESTROYED container event for an id the
\* id is not in the allow-set and nothing else has changed; DoFunc on any
\* other event leaves the filter as it was; an event whose id is outside the
\* allow-set is accepted only as a container event with an allowed name,
\* image id or image name.
C14_DestroyedEvicts ==
    /\ ( /\ flast.op = "DoFunc"
         /\ flast.event.payload = "container"
         /\ flast.event.Type = "DESTROYED" )
       => /\ flast.event.ContainerId \notin containerIds
          /\ FilterState = [flast.before EXCEPT !.containerIds =
                               @ \ {flast.event.ContainerId}]
    /\ ( /\ flast.op = "DoFunc"
         /\ ~(flast.event.payload = "container" /\ flast.event.Type = "DESTROYED") )
       => FilterState = flast.before
    /\ ( /\ flast.op = "FilterFunc"
         /\ flast.result
         /\ flast.event.ContainerId \notin flast.before.containerIds )
       => /\ flast.event.payload = "container"
          /\ \/ flast.event.Name \in flast.before.containerNames
             \/ flast.event.ImageId \in flast.before.imageIds
             \/ \E g \in flast.before.imageGlobs :
                   GlobMatch(g, flast.event.ImageName)

\* a DESTROYED event removes an id that was in the allow-set
C14_Witness ==
    /\ flast.op = "DoFunc"
    /\ flast.event.Type = "DESTROYED"
    /\ flast.event.ContainerId \in flast.before.containerIds
    /\ flast.event.ContainerId \notin containerIds

---------------------------------------------------------------------------
(* Properties of registrations.  rlast describes the latest registration:   *)
(* the requesters' filters, the calls it made and the counter before it.    *)

\* samples of the syscall probes; no filter of a requester names syscall 9
SyscallSamples == [id : {"1", "2", "9"}, arg0 : {"5", "6"}, ret : {"0", "1"}]

\* the calls of the latest registration that register a probe of the names
ProbeCalls(names) ==
    {i \in DOMAIN rlast.calls :
        /\ rlast.calls[i].fn \in {"RegisterTracepoint", "RegisterKprobe"}
        /\ rlast.calls[i].name \in names}

EnterProbeNames ==
    {DummyEventName, syscallNewEnterKprobeAddress, syscallOldEnterKprobeAddress}

\* the requesters of a type whose rewritten filter tests id and is a valid
\* kernel filter
IdRequesters(type) ==
    {i \in DOMAIN rlast.events :
        LET sef == rewriteSyscallEventFilter(rlast.events[i])
        IN  /\ sef.Type = type
            /\ containsIDFilter(sef.FilterExpression)
            /\ NewExpressionOk(sef.FilterExpression)
            /\ ValidateKernelFilterOk(sef.FilterExpression)}

\* the probe names of a type
ProbeNames(type) == IF type = "ENTER" THEN EnterProbeNames ELSE {ExitEventName}

\* C15: every filter registerSyscallEvents passes to the monitor rejects the
\* samples of a syscall that no requester names; a sample a registered
\* filter accepts is accepted by the filter of a requester of that type that
\* tests id; and without such a requester no probe of the type is
\* registered.
C15_OnlyIdFiltersReachTheKernel ==
    rlast.op = "registerSyscallEvents"
    => \A type \in {"ENTER", "EXIT"} :
          /\ \A i \in ProbeCalls(ProbeNames(type)), smp \in SyscallSamples :
                KernelAccepts(rlast.calls[i].filter, smp)
                => /\ smp.id # "9"
                   /\ \E j \in IdRequesters(type) :
                         EvalExpr(rewriteSyscallEventFilter(rlast.events[j])
                                      .FilterExpression, smp)
          /\ IdRequesters(type) = {} => ProbeCalls(ProbeNames(type)) = {}

\* an enter kprobe is registered for two requesters of which one tests
\* arg0 only
C15_Witness ==
    /\ rlast.op = "registerSyscallEvents"
    /\ Len(rlast.events) = 2
    /\ Cardinality(IdRequesters("ENTER")) = 1
    /\ \E i \in DOMAIN rlast.events :
          /\ rlast.events[i].Type = "ENTER"
          /\ rlast.events[i].Id = NoValue
          /\ rlast.events[i].FilterExpression = Equal(Identifier("arg0"), Value("5"))
    /\ \E i \in ProbeCalls({syscallNewEnterKprobeAddress}) : rlast.calls[i].ok

\* the dummy tracepoint is registered
DummyRegistered == \E e \in registered : e.name = DummyEventName

\* the live subscriptions that hold a subscription to an enter kprobe
EnterSubscribers ==
    {k \in SubIDs :
        \E sub \in eventMaps[k].subs, e \in registered :
            /\ e.id = sub.eventID
            /\ e.name \in {syscallNewEnterKprobeAddress, syscallOldEnterKprobeAddress}}

\* C16: on a kernel of major version 3 or more, a registration registers the
\* dummy tracepoint exactly if it has enter filters and finds the counter at
\* 0, a registration that finds it higher only adds one to it, a teardown
\* unregisters the dummy tracepoint exactly if it lowers the counter to 0,
\* and when no subscription to the enter kprobe is left the dummy tracepoint
\* is not registered.
C16_DummyReferenceCounted ==
    major >= 3
    => /\ rlast.op = "registerSyscallEvents"
          => /\ ProbeCalls({DummyEventName}) # {}
                <=> (rlast.enterFilters # {} /\ rlast.count = 0)
             /\ (rlast.enterFilters # {} /\ rlast.count >= 1)
                => dummySyscallEventCount = rlast.count + 1
       /\ rlast.op = "Teardown"
          => ( (\E i \in DOMAIN rlast.calls : rlast.calls[i].fn = "UnregisterEvent")
               <=> (dummySyscallEventCount = 0 /\ rlast.count = 1) )
       /\ EnterSubscribers = {} => ~DummyRegistered

\* C17: on a kernel of major version below 3, a registration with enter
\* filters first registers the dummy tracepoint, once, in the event group of
\* its caller; dummySyscallEventCount stays 0; no subscription carries an
\* unregister callback; and UnregisterEvent is never called.
C17_OldKernelDummyPerGroup ==
    major < 3
    => /\ ( rlast.op = "registerSyscallEvents" /\ rlast.enterFilters # {} )
          => /\ Cardinality(ProbeCalls({DummyEventName})) = 1
             /\ rlast.calls[1].name = DummyEventName
             /\ rlast.calls[1].group = rlast.k
       /\ dummySyscallEventCount = 0
       /\ \A k \in SubIDs : \A sub \in eventMaps[k].subs : ~sub.unregister
       /\ \A i \in DOMAIN rlast.calls : rlast.calls[i].fn # "UnregisterEvent"

\* on an old kernel a subscription with a subscription to the enter kprobe
\* has ended, and the dummy tracepoint of its group is still registered
C17_Witness ==
    /\ major < 3
    /\ rlast.op = "Teardown"
    /\ \E e \in registered : e.name = DummyEventName /\ e.group = rlast.k
    /\ \E e \in registered :
          e.name = syscallNewEnterKprobeAddress /\ e.group = rlast.k

\* the calls of the latest registration that register the enter kprobe, in
\* the order they were made
KprobeCalls ==
    SelectSeq(rlast.calls, LAMBDA c : c.fn = "RegisterKprobe")

\* C18: a registration with enter filters registers the enter kprobe by its
\* new address first and by its old address only if that failed; at most one
\* of the two succeeds and is subscribed to; if both fail the caller gets no
\* subscription to an enter kprobe.
C18_KprobeAddressFallback ==
    ( rlast.op = "registerSyscallEvents" /\ rlast.enterFilters # {} )
    => /\ Len(KprobeCalls) \in {1, 2}
       /\ KprobeCalls[1].name = syscallNewEnterKprobeAddress
       /\ Len(KprobeCalls) = 2
          <=> ~KprobeCalls[1].ok
       /\ Len(KprobeCalls) = 2
          => KprobeCalls[2].name = syscallOldEnterKprobeAddress
       /\ Cardinality({i \in DOMAIN KprobeCalls : KprobeCalls[i].ok}) <= 1
       /\ \A i \in DOMAIN KprobeCalls :
             KprobeCalls[i].ok
             <=> \E sub \in eventMaps[rlast.k].subs :
                    sub.eventID = KprobeCalls[i].id
       /\ (\A i \in DOMAIN KprobeCalls : ~KprobeCalls[i].ok)
          => rlast.k \notin EnterSubscribers

\* the new address failed and the old one was registered and subscribed to
C18_Witness ==
    /\ rlast.op = "registerSyscallEvents"
    /\ Len(KprobeCalls) = 2
    /\ ~KprobeCalls[1].ok
    /\ KprobeCalls[2].ok
    /\ KprobeCalls[2].name = syscallOldEnterKprobeAddress
    /\ rlast.k \in EnterSubscribers

\* samples of the do_sys_open kprobe
FileSamples ==
    [filename : {"/etc/passwd", "/tmp/x"}, flags : {"0", "1"}, mode : {"0", "2"}]

\* the sub-types the latest registration merges filters for
SubTypes ==
    CASE rlast.op = "registerSyscallEvents" -> {"ENTER", "EXIT"}
      [] rlast.op = "registerFileEvents" -> {"OPEN"}
      [] OTHER -> {}

\* the filter of requester i after the rewriting of its deprecated fields
RequesterFilter(i) ==
    IF rlast.op = "registerFileEvents"
    THEN rewriteFileEventFilter(rlast.events[i]).FilterExpression
    ELSE rewriteSyscallEventFilter(rlast.events[i]).FilterExpression

\* the open requesters that have no filter
AbsentRequesters ==
    {i \in DOMAIN rlast.events :
        rlast.events[i].Type = "OPEN" /\ RequesterFilter(i) = Nil}

\* the requesters of a sub-type that have a valid filter
ValidRequesters(type) ==
    IF type = "OPEN"
    THEN {i \in DOMAIN rlast.events :
             /\ rlast.events[i].Type = "OPEN"
             /\ RequesterFilter(i) # Nil
             /\ NewExpressionOk(RequesterFilter(i))
             /\ ValidateKernelFilterOk(RequesterFilter(i))}
    ELSE IdRequesters(type)

\* the calls of the latest registration that register the probe of a
\* sub-type
TypeProbeCalls(type) ==
    ProbeCalls(CASE type = "ENTER" -> {syscallNewEnterKprobeAddress,
                                       syscallOldEnterKprobeAddress}
                 [] type = "EXIT" -> {ExitEventName}
                 [] type = "OPEN" -> {fsDoSysOpenKprobeAddress})

\* the samples of the probe of a sub-type
TypeSamples(type) == IF type = "OPEN" THEN FileSamples ELSE SyscallSamples

\* the strings of a sequence, each in parentheses, joined by ||
RECURSIVE Disjunction(_)
Disjunction(strings) ==
    IF strings = <<>> THEN <<>>
    ELSE <<"(">> \o Head(strings) \o <<")">>
         \o (IF Len(strings) = 1 THEN <<>> ELSE <<"||">>)
         \o Disjunction(Tail(strings))

\* The probe of a sub-type is registered at most once, with a filter that is
\* the disjunction of the distinct kernel filter strings of the valid
\* requester filters, in some order, and that accepts a sample exactly if one
\* of these requester filters does; without a valid requester filter it is
\* not registered.
MergedAsDisjunction(type) ==
    LET strings == {KernelFilterString(RequesterFilter(j)) :
                       j \in ValidRequesters(type)}
        calls == TypeProbeCalls(type)
    IN  /\ calls = {} <=> ValidRequesters(type) = {}
        /\ Cardinality({i \in calls : rlast.calls[i].ok}) <= 1
        /\ \A i \in calls :
              /\ \E o \in KeyOrders(strings) :
                    rlast.calls[i].filter = Disjunction(o)
              /\ \A smp \in TypeSamples(type) :
                    KernelAccepts(rlast.calls[i].filter, smp)
                    <=> \E j \in ValidRequesters(type) :
                           EvalExpr(RequesterFilter(j), smp)

\* C19 as stated: for syscall enter, syscall exit and file open alike, the
\* probe is registered once with the disjunction of the distinct valid
\* requester filters as its kernel filter.
C19_MergedFilterIsDisjunction ==
    \A type \in SubTypes :
        ValidRequesters(type) # {} => MergedAsDisjunction(type)

\* C19: for syscall enter and syscall exit, and for file open when every open
\* requester has a filter, the probe is registered at most once, with the
\* disjunction of the distinct valid requester filters as its kernel filter.
C19_MergedFilterUnlessAbsent ==
    \A type \in SubTypes :
        (type = "OPEN" /\ AbsentRequesters # {}) \/ MergedAsDisjunction(type)

\* two requesters with different valid filters get one probe whose filter
\* joins both
C19_Witness ==
    /\ rlast.op = "registerFileEvents"
    /\ Cardinality(ValidRequesters("OPEN")) = 2
    /\ AbsentRequesters = {}
    /\ \E i \in TypeProbeCalls("OPEN") :
          /\ rlast.calls[i].ok
          /\ \E j \in DOMAIN rlast.calls[i].filter :
                rlast.calls[i].filter[j] = "||"

\* C20: if an open requester has no filter after the rewriting of its
\* deprecated fields, registerFileEvents registers the do_sys_open kprobe
\* once, with the empty kernel filter, whatever the filters of the other
\* requesters; the registered kprobe accepts every sample.
C20_AbsentFilterMakesUnconditional ==
    ( rlast.op = "registerFileEvents" /\ AbsentRequesters # {} )
    => /\ Cardinality(TypeProbeCalls("OPEN")) = 1
       /\ \A i \in TypeProbeCalls("OPEN") :
             /\ rlast.calls[i].filter = <<>>
             /\ rlast.calls[i].ok
                => \E e \in registered :
                      /\ e.id = rlast.calls[i].id
                      /\ e.name = fsDoSysOpenKprobeAddress
                      /\ e.filter = <<>>
                      /\ \A smp \in FileSamples : KernelAccepts(e.filter, smp)

\* a requester without filter and a requester with a valid filter: the
\* kprobe is registered with the empty filter
C20_Witness ==
    /\ rlast.op = "registerFileEvents"
    /\ AbsentRequesters # {}
    /\ ValidRequesters("OPEN") # {}
    /\ \E e \in registered :
          e.name = fsDoSysOpenKprobeAddress /\ e.filter = <<>>

\* the open requesters whose filter cannot be made or is no kernel filter
InvalidRequesters ==
    {i \in DOMAIN rlast.events :
        /\ rlast.events[i].Type = "OPEN"
        /\ RequesterFilter(i) # Nil
        /\ ~(/\ NewExpressionOk(RequesterFilter(i))
             /\ ValidateKernelFilterOk(RequesterFilter(i)))}

\* the calls of the latest registration that register an event
RegisterCalls ==
    {i \in DOMAIN rlast.calls :
        rlast.calls[i].fn \in {"RegisterTracepoint", "RegisterKprobe"}}

\* C22: registerSyscallEvents registers no probe with the empty kernel
\* filter; registerFileEvents registers the kprobe with the empty kernel
\* filter only if an open requester has no filter; otherwise a sample the
\* registered filter accepts is accepted by a valid requester filter, so an
\* invalid filter widens nothing; and if the filter of every open requester
\* is invalid no kprobe is registered.
C22_FiltersNeverWidened ==
    /\ rlast.op = "registerSyscallEvents"
       => \A i \in RegisterCalls :
             /\ rlast.calls[i].filter # <<>>
             /\ \E smp \in SyscallSamples :
                   ~KernelAccepts(rlast.calls[i].filter, smp)
    /\ rlast.op = "registerFileEvents"
       => /\ \A i \in RegisterCalls :
                \/ AbsentRequesters # {}
                \/ /\ rlast.calls[i].filter # <<>>
                   /\ \A smp \in FileSamples :
                         KernelAccepts(rlast.calls[i].filter, smp)
                         => \E j \in ValidRequesters("OPEN") :
                               EvalExpr(RequesterFilter(j), smp)
          /\ ( AbsentRequesters = {} /\ ValidRequesters("OPEN") = {} )
             => RegisterCalls = {}
    /\ \A e \in registered :
          e.filter = <<>>
          => ( /\ e.name = fsDoSysOpenKprobeAddress
               /\ rlast.op = "registerFileEvents"
               /\ AbsentRequesters # {} )

\* a requester with an invalid filter beside one with a valid filter: the
\* kprobe is registered with the valid filter alone
C22_Witness ==
    /\ rlast.op = "registerFileEvents"
    /\ InvalidRequesters # {}
    /\ ValidRequesters("OPEN") # {}
    /\ \E i \in RegisterCalls :
          /\ rlast.calls[i].ok
          /\ rlast.calls[i].filter # <<>>

\* the calls of the latest registration that register the exit tracepoint
ExitCalls == ProbeCalls({ExitEventName})

\* the subscriptions of the latest call's subscription map to an event id
SubsOf(eventID) == {sub \in eventMaps[rlast.k].subs : sub.eventID = eventID}

\* C24: a registration with exit filters registers the exit tracepoint once,
\* and subscribes to it if that succeeds, also when the enter kprobe failed
\* by both addresses; and the subscription to an enter kprobe that was
\* registered is there after the call also when the registration of the exit
\* tracepoint failed.
C24_FailureIsolatedPerSubType ==
    rlast.op = "registerSyscallEvents"
    => /\ rlast.exitFilters # {}
          => /\ Cardinality(ExitCalls) = 1
             /\ \A i \in ExitCalls :
                   rlast.calls[i].ok
                   <=> Cardinality(SubsOf(rlast.calls[i].id)) = 1
       /\ rlast.exitFilters = {} => ExitCalls = {}
       /\ \A i \in DOMAIN KprobeCalls :
             KprobeCalls[i].ok
             => Cardinality(SubsOf(KprobeCalls[i].id)) = 1

\* the enter kprobe failed by both addresses and the exit tracepoint was
\* registered and subscribed to
C24_Witness ==
    /\ rlast.op = "registerSyscallEvents"
    /\ Len(KprobeCalls) = 2
    /\ \A i \in DOMAIN KprobeCalls : ~KprobeCalls[i].ok
    /\ \E i \in ExitCalls :
          rlast.calls[i].ok /\ SubsOf(rlast.calls[i].id) # {}

\* what the stepwise registrations and teardowns of a set of subscriptions
\* have added to the counter: their increments less their decrements
RECURSIVE NetCount(_)
NetCount(S) ==
    IF S = {} THEN 0
    ELSE LET k == CHOOSE x \in S : TRUE
         IN  thr[k].incs - thr[k].decs + NetCount(S \ {k})

\* the positions at which a callback has decremented the counter
AfterDec == {"unreg", "done"}

CallbackSubs ==
    {ks \in SubIDs \X UNION {eventMaps[k].subs : k \in SubIDs} :
        ks[2] \in eventMaps[ks[1]].subs /\ ks[2].unregister}

\* C30: dummySyscallEventCount is the number of live subscriptions to an
\* enter kprobe whose unregister callback will decrement it, and is never
\* negative, after any registrations and teardowns.
C30_CounterMatchesSubscriptions ==
    /\ dummySyscallEventCount = Cardinality(CallbackSubs)
    /\ dummySyscallEventCount >= 0

---------------------------------------------------------------------------
(* Properties of container event registrations.  rlast.events are the       *)
(* requests of the latest registerContainerEvents call.                    *)

\* the container event samples a filter is evaluated for
ContainerSamples == [name : {"web", "db"}, image_id : {"i1", "i2"}]

\* the positions of the requests of a container event type
ContainerRequesters(t) == {i \in DOMAIN rlast.events : rlast.events[i].Type = t}

\* the subscriptions of the latest call for a container event type
ContainerSubs(t) ==
    {sub \in eventMaps[rlast.k].subs : sub.eventID = containerEventID(t)}

\* the filters the requesters of a type gave, joined by OR in request order
RECURSIVE RequestedFilter(_, _)
RequestedFilter(t, n) ==
    IF n = 0 THEN Nil
    ELSE IF n \in ContainerRequesters(t)
         THEN LogicalOr(RequestedFilter(t, n - 1),
                        rlast.events[n].FilterExpression)
         ELSE RequestedFilter(t, n - 1)

CombinedFilter(t) == RequestedFilter(t, Len(rlast.events))

\* the combined filter of a type fails construction or validation
FilterFails(t) ==
    /\ CombinedFilter(t) # Nil
    /\ ~(/\ NewExpressionOk(CombinedFilter(t))
         /\ ValidateOk(CombinedFilter(t), containerEventTypes))

\* the calls of the latest registration that unsubscribe an event id
UnsubscribeCalls(eventID) ==
    {i \in DOMAIN rlast.calls : /\ rlast.calls[i].fn = "unsubscribe"
                                /\ rlast.calls[i].id = eventID}

\* C21: if a requester of a container event type has no filter expression,
\* the subscription of that type has no filter, whatever the other
\* requesters of the type ask for and whatever the order of the requests.
C21_AbsentContainerFilterUnconditional ==
    rlast.op = "registerContainerEvents" =>
        \A t \in 1..5 :
            (\E i \in ContainerRequesters(t) :
                rlast.events[i].FilterExpression = Nil)
            => \E sub \in ContainerSubs(t) : sub.filter = Nil

\* C23: when the combined filter of a container event type fails
\* construction or validation, unsubscribe is called for the type's event
\* id, the type has no subscription and so no filter; every other requested
\* type keeps its one subscription, with its combined filter.
C23_FailedFilterEndsSubscription ==
    rlast.op = "registerContainerEvents" =>
        \A t \in 1..5 :
            IF FilterFails(t)
            THEN /\ ContainerSubs(t) = {}
                 /\ UnsubscribeCalls(containerEventID(t)) # {}
            ELSE /\ UnsubscribeCalls(containerEventID(t)) = {}
                 /\ ContainerRequesters(t) # {} =>
                        ContainerSubs(t) =
                            {[eventID |-> containerEventID(t),
                              unregister |-> FALSE,
                              filter |-> CombinedFilter(t)]}

C23_Witness ==
    /\ rlast.op = "registerContainerEvents"
    /\ \E t, u \in 1..5 :
          /\ FilterFails(t)
          /\ ~NewExpressionOk(CombinedFilter(t))
          /\ ContainerSubs(t) = {}
          /\ ContainerRequesters(u) # {}
          /\ ~FilterFails(u)
          /\ \E sub \in ContainerSubs(u) : sub.filter # Nil

---------------------------------------------------------------------------
(* Properties of the decoders.  dispatch describes the latest sample.       *)

\* a field the latest sample's decoder asserts is missing or of another type
BadSample ==
    /\ dispatch.decoder \in Decoders
    /\ \E f \in DOMAIN Asserted(dispatch.decoder) :
          dispatch.data[f] # Asserted(dispatch.decoder)[f]

\* C26: a decoder given a sample in which a field it expects is missing or
\* of another type yields an error for that sample and no event, the
\* dispatch path goes on, and a later sample is decoded.
C26_DecodeFailureIsolated ==
    BadSample => /\ dispatch.result = "error"
                 /\ dispatch.alive

---------------------------------------------------------------------------
(* Properties of the exit fields of a container event sample.               *)

\* the low seven bits of a wait status: 0 for an exit, 127 for a stop, the
\* signal otherwise
TermSig(code) == code % 128

\* the exit code of the entry a sample of the latest call was made from
SampledExitCode ==
    IF last.op = "deleteContainer" THEN last.old.ExitCode
    ELSE heap[last.ptr].ExitCode

\* C27: in every sample that is enqueued exit_code is the entry's ExitCode;
\* exit_status is the exit status if ExitCode is a normal exit and 0
\* otherwise; exit_signal is the signal if ExitCode is a death by signal and
\* 0 otherwise; exit_core_dumped holds exactly for a death by signal with the
\* core bit set; exit_status and exit_signal are never both non-zero.
C27_ExitCodeDecoded ==
    \A i \in DOMAIN emitted :
        LET d == emitted[i].data
            code == d.exit_code
        IN  /\ code = SampledExitCode
            /\ d.exit_status = (IF TermSig(code) = 0
                                THEN (code \div 256) % 256 ELSE 0)
            /\ d.exit_signal = (IF TermSig(code) \notin {0, 127}
                                THEN TermSig(code) ELSE 0)
            /\ d.exit_core_dumped
               <=> ( /\ TermSig(code) \notin {0, 127}
                     /\ (code \div 128) % 2 = 1 )
            /\ d.exit_status = 0 \/ d.exit_signal = 0

\* a sample of an entry that exited with status 1 while bit 7 of its wait
\* status is set: no signal and no core dump
C27_Witness ==
    \E i \in DOMAIN emitted :
        /\ emitted[i].data.exit_code = 384
        /\ emitted[i].data.exit_status = 1
        /\ emitted[i].data.exit_signal = 0
        /\ ~emitted[i].data.exit_core_dumped

---------------------------------------------------------------------------
(* Properties of the cache's mutex.  pc and loc describe the calls under    *)
(* way in SpecLock.                                                        *)

\* the positions of a call between Lock and Unlock
Locked ==
    {"lookup_read", "lookup_insert", "lookup_return", "delete_read",
     "delete_key", "delete_unlock"}

\* C28: a caller holds the mutex exactly between the Lock and the Unlock of
\* its lookupContainer or deleteContainer call, so never after the call has
\* returned, whichever path it took, and never when it enqueues a sample:
\* deleteContainer enqueues DESTROYED after Unlock, Update enqueues without
\* the mutex.
C28_MutexOnlyForMapOperation ==
    /\ \A p \in Callers : mu = p <=> pc[p] \in Locked
    /\ \A p \in Callers : pc[p] \in {"idle", "delete_enqueue"} => mu # p
    /\ mu \in Callers \cup {NoOwner}

\* a caller is about to enqueue DESTROYED while the other caller holds the
\* mutex
C28_Witness ==
    \E p, q \in Callers :
        /\ p # q
        /\ pc[p] = "delete_enqueue"
        /\ mu = q
        /\ pc[q] = "lookup_insert"

\* C29: lookupContainer with create makes an entry with unknown runtime and
\* unknown state when the id has none; without create it inserts nothing
\* and returns nil for an id without entry; and the entry a caller got, by
\* however many calls of one or of several callers, is the one entry the
\* cache has for the id unless its key has been deleted since.
C29_OneEntryPerId ==
    /\ \A p \in Callers :
          /\ pc[p] = "lookup_insert" => loc[p].create /\ cache[loc[p].id] = 0
          /\ pc[p] = "lookup_return"
             => /\ loc[p].info = cache[loc[p].id]
                /\ loc[p].created
                   => heap[loc[p].info] = newContainerInfo(loc[p].id)
                /\ loc[p].create => loc[p].info # 0
                /\ ~loc[p].create => ~loc[p].created
          /\ held[p] # 0
             => \/ held[p] = cache[heap[held[p]].ID]
                \/ held[p] \in destroyed
    /\ \A p, q \in Callers :
          ( /\ held[p] # 0
            /\ held[q] # 0
            /\ heap[held[p]].ID = heap[held[q]].ID
            /\ held[p] \notin destroyed
            /\ held[q] \notin destroyed )
          => held[p] = held[q]

\* two callers looked the id up with create and hold the same entry, which
\* the second call found
C29_Witness ==
    \E p, q \in Callers :
        /\ p # q
        /\ held[p] # 0
        /\ held[p] = held[q]
        /\ held[p] = cache["c1"]
        /\ last.op = "lookupContainer"
        /\ last.create
        /\ last.wasCached

\* Properties of the dummy tracepoint's id

\* the ids of the dummy tracepoints that are registered
RegisteredDummyIDs ==
    {e.id : e \in {r \in registered : r.name = DummyEventName}}

\* C31: whenever a teardown callback is about to call UnregisterEvent for
\* the dummy tracepoint, the event id it read from dummySyscallEventID is the
\* id of a dummy tracepoint that is registered at that moment, under every
\* interleaving of registrations and teardowns.
C31_UnregistersRegisteredDummy ==
    \A k \in SubIDs :
        thr[k].pc = "unreg" => thr[k].eventID \in RegisteredDummyIDs

---------------------------------------------------------------------------
(* Properties of concurrent calls on one entry or one id *)

\* the data of an Update that reports the running state and nothing else
RunningData ==
    [keys |-> {"State"}, vals |-> [ZeroVals EXCEPT !.State = ContainerStateRunning]]

\* the lifecycle events among the samples a call enqueued
Enqueued(samples) == {samples[i].eventID : i \in DOMAIN samples}

\* C32: two Update calls of the same runtime that report the running state
\* on one entry, run by two callers with their statements interleaved,
\* enqueue CREATED once and RUNNING once between them: the call that returns
\* second enqueues neither event again.  (emitted holds the samples of the
\* call that returned last; SpecRace has one entry.)
C32_NoDuplicateLifecycleEvents ==
    [][ \A p \in Callers :
          ( /\ pc[p] = "emit"
            /\ pc'[p] = "idle"
            /\ loc[p].data = RunningData
            /\ last.op = "Update"
            /\ last.caller # p
            /\ last.ptr = held[p]
            /\ last.data = RunningData
            /\ last.runtime = loc[p].runtime )
          => Enqueued(emitted) \cap Enqueued(emitted') \cap {"CREATED", "RUNNING"} = {} ]_vars

\* the positions of a deleteContainer call after its map operation
Deleted == {"delete_unlock", "delete_enqueue"}

\* the callers whose deleteContainer call removed an entry and has not
\* returned
Removers == {p \in Callers : pc[p] \in Deleted /\ loc[p].ok}

\* C33: of the deleteContainer calls that run concurrently for one id, one
\* removes the entry and enqueues DESTROYED once: no two calls under way
\* have removed the same entry, only a call that removed an entry goes on
\* to enqueue, an entry that was removed is not in the map again, so that no
\* later call removes it a second time, and a call enqueues at most the one
\* DESTROYED sample of the entry it removed.
C33_ConcurrentDeletesDestroyOnce ==
    /\ \A p, q \in Removers : p # q => loc[p].info # loc[q].info
    /\ \A p \in Callers : pc[p] = "delete_enqueue" => loc[p].ok
    /\ \A p \in Removers :
          /\ loc[p].info # 0
          /\ loc[p].info \in destroyed
    /\ \A s \in destroyed : \A id \in ContainerIDs : cache[id] # s
    /\ last.op = "deleteContainer"
       => /\ Len(emitted) = (IF last.old # FreeSlot THEN 1 ELSE 0)
          /\ \A i \in DOMAIN emitted :
                /\ emitted[i].eventID = "DESTROYED"
                /\ emitted[i].info = last.ptr

\* two deleteContainer calls for the same id and the runtime of its entry
\* are under way: one removed the entry and is about to enqueue DESTROYED,
\* the other has found no entry
C33_Witness ==
    \E p, q \in Callers :
        /\ p # q
        /\ pc[p] = "delete_enqueue"
        /\ pc[q] = "delete_unlock"
        /\ loc[q].id = loc[p].id
        /\ loc[q].runtime = loc[p].runtime
        /\ loc[p].runtime = ContainerRuntimeDocker
        /\ ~loc[q].ok
        /\ loc[q].info = 0

---------------------------------------------------------------------------
(* Properties of Update calls that cross no threshold.  last describes the  *)
(* latest call and the entry before it, emitted the samples it enqueued.    *)

\* C34: an Update that changes the state of its entry to a lower-ordered
\* state enqueues no sample at all, also when it changed the name or the
\* exit code of the entry in the same call.
C34_BackwardChangeEmitsNothing ==
    ( /\ last.op = "Update"
      /\ heap[last.ptr].State < last.old.State )
    => emitted = <<>>

\* an Update took its entry from exited back to running and gave it another
\* name
C34_Witness ==
    /\ last.op = "Update"
    /\ last.old.State = ContainerStateExited
    /\ heap[last.ptr].State = ContainerStateRunning
    /\ "Name" \in last.data.keys
    /\ heap[last.ptr].Name # last.old.Name
    /\ emitted = <<>>

\* a change of state from oldState up to newState that starts at created or
\* later and crosses neither the running nor the restarting threshold
CrossesNothing(oldState, newState) ==
    /\ oldState >= ContainerStateCreated
    /\ newState > oldState
    /\ ~(oldState < ContainerStateRunning /\ newState >= ContainerStateRunning)
    /\ ~(oldState < ContainerStateRestarting /\ newState >= ContainerStateRestarting)

\* C35: an Update that moves its entry forward without crossing a threshold
\* (created to paused, restarting or exited to a later state) enqueues no
\* sample, and the name and exit code its data carry are stored in the
\* entry without an UPDATED sample.
C35_ForwardChangeWithoutThreshold ==
    ( /\ last.op = "Update"
      /\ CrossesNothing(last.old.State, heap[last.ptr].State) )
    => /\ emitted = <<>>
       /\ \A f \in last.data.keys : heap[last.ptr][f] = last.data.vals[f]

\* an Update took its entry from created to paused and gave it another name
C35_Witness ==
    /\ last.op = "Update"
    /\ last.old.State = ContainerStateCreated
    /\ heap[last.ptr].State = ContainerStatePaused
    /\ "Name" \in last.data.keys
    /\ last.old.Name # last.data.vals.Name
    /\ heap[last.ptr].Name = last.data.vals.Name
    /\ emitted = <<>>

---------------------------------------------------------------------------
(* Properties of repeated Update calls *)

\* C36: an Update with the runtime and the data of the Update that ran on
\* the same entry immediately before it changes no field of the entry and
\* enqueues no sample.
C36_UpdateIdempotent ==
    [][ ( /\ last.op = "Update"
          /\ last'.op = "Update"
          /\ last'.ptr = last.ptr
          /\ last'.runtime = last.runtime
          /\ last'.data = last.data )
        => /\ heap'[last.ptr] = heap[last.ptr]
           /\ emitted' = <<>> ]_vars

---------------------------------------------------------------------------
(* Properties of containsIDFilter and of the rewriting of filters.  rlast   *)
(* holds the filters of the latest registration as they were requested.    *)

\* the expressions registerSyscallEvents handed to containsIDFilter
TestedExpressions ==
    {rewriteSyscallEventFilter(rlast.events[i]).FilterExpression :
        i \in DOMAIN rlast.events}

\* the node compares the identifier id for equality
IsIdTest(expr) ==
    /\ expr.type = "EQ"
    /\ expr.lhs = Identifier("id")

\* the disjuncts of an expression, each the set of the nodes it requires:
\* an OR has the disjuncts of both operands, an AND joins each disjunct of
\* one operand with each of the other
RECURSIVE Disjuncts(_)
Disjuncts(expr) ==
    CASE expr.type = "LOGICAL_OR" -> Disjuncts(expr.lhs) \cup Disjuncts(expr.rhs)
      [] expr.type = "LOGICAL_AND" ->
            {l \cup r : l \in Disjuncts(expr.lhs), r \in Disjuncts(expr.rhs)}
      [] OTHER -> {{expr}}

\* C37: containsIDFilter is false for an absent expression, true for an EQ
\* exactly if its left operand is the identifier id, true for an AND
\* exactly if it is true for an operand, true for an OR exactly if it is
\* true for both operands, and false for any other node; so it is true
\* exactly if every disjunct of the expression tests id for equality.
C37_ContainsIDFilterStructure ==
    rlast.op = "registerSyscallEvents"
    => \A expr \in TestedExpressions :
          /\ expr = Nil => ~containsIDFilter(expr)
          /\ expr.type = "EQ" => (containsIDFilter(expr) <=> IsIdTest(expr))
          /\ expr.type = "LOGICAL_AND"
             => (containsIDFilter(expr)
                 <=> containsIDFilter(expr.lhs) \/ containsIDFilter(expr.rhs))
          /\ expr.type = "LOGICAL_OR"
             => (containsIDFilter(expr)
                 <=> containsIDFilter(expr.lhs) /\ containsIDFilter(expr.rhs))
          /\ expr.type \notin {"EQ", "LOGICAL_AND", "LOGICAL_OR"}
             => ~containsIDFilter(expr)
          /\ containsIDFilter(expr)
             <=> \A d \in Disjuncts(expr) : \E node \in d : IsIdTest(node)

\* a registration was given an AND of which only the left operand tests id
\* and an OR of which only the left operand tests id
C37_Witness ==
    /\ rlast.op = "registerSyscallEvents"
    /\ \E a, o \in TestedExpressions :
          /\ a.type = "LOGICAL_AND"
          /\ IsIdTest(a.lhs)
          /\ ~containsIDFilter(a.rhs)
          /\ containsIDFilter(a)
          /\ o.type = "LOGICAL_OR"
          /\ IsIdTest(o.lhs)
          /\ ~containsIDFilter(o.rhs)
          /\ ~containsIDFilter(o)

---------------------------------------------------------------------------
(* Properties of the empty container id *)

\* the event is allowed by a name, an image id or a pattern of the filter f
MatchesOtherwise(f, e) ==
    \/ e.Name \in f.containerNames
    \/ e.ImageId \in f.imageIds
    \/ /\ e.ImageName # <<>>
       /\ \E g \in f.imageGlobs : GlobMatch(g, e.ImageName)

\* C38: the allow-set never holds the empty id, neither from the
\* configuration nor by promotion: FilterFunc accepts a container event
\* without container id that a name, an image id or a pattern allows and
\* leaves the filter as it was, and it rejects every event without
\* container id that is not a container event.
C38_EmptyIdNeverAllowed ==
    /\ "" \notin containerIds
    /\ ( /\ flast.op = "FilterFunc"
         /\ flast.event.ContainerId = ""
         /\ flast.event.payload = "container"
         /\ MatchesOtherwise(flast.before, flast.event) )
       => /\ flast.result
          /\ FilterState = flast.before
    /\ ( /\ flast.op = "FilterFunc"
         /\ flast.event.ContainerId = ""
         /\ flast.event.payload # "container" )
       => ~flast.result

\* a filter with a configured id accepted a container event without
\* container id for its image name
C38_Witness ==
    /\ flast.op = "FilterFunc"
    /\ flast.event.ContainerId = ""
    /\ flast.event.payload = "container"
    /\ flast.event.Name \notin flast.before.containerNames
    /\ flast.event.ImageId \notin flast.before.imageIds
    /\ flast.event.ImageName = <<"a", "/", "b">>
    /\ flast.before.containerIds = {"c1"}
    /\ flast.result
    /\ containerIds = {"c1"}

\* the operands of the chain of ANDs at the top of an expression, from left
\* to right; an absent expression has none
RECURSIVE ConjunctList(_)
ConjunctList(expr) ==
    CASE expr = Nil -> <<>>
      [] expr.type = "LOGICAL_AND" -> ConjunctList(expr.lhs) \o ConjunctList(expr.rhs)
      [] OTHER -> <<expr>>

\* the comparisons that stand for the deprecated fields a syscall filter
\* sets: Id, and Arg0..Arg5 of an enter filter or Ret of an exit filter
SyscallComparisons(sef) ==
    (IF sef.Id # NoValue
     THEN {Equal(Identifier("id"), Value(sef.Id))} ELSE {})
    \cup {Equal(Identifier(a), Value(sef.Args[a])) :
            a \in {b \in DOMAIN sef.Args :
                      sef.Type = "ENTER" /\ sef.Args[b] # NoValue}}
    \cup (IF sef.Type = "EXIT" /\ sef.Ret # NoValue
          THEN {Equal(Identifier("ret"), Value(sef.Ret))} ELSE {})

\* the comparisons that stand for the deprecated fields a file filter sets:
\* Filename, or else FilenamePattern, and the two masks
FileComparisons(fef) ==
    (IF fef.Filename # NoValue
     THEN {Equal(Identifier("filename"), Value(fef.Filename))}
     ELSE IF fef.FilenamePattern # NoValue
     THEN {Like(Identifier("filename"), Value(fef.FilenamePattern))}
     ELSE {})
    \cup (IF fef.OpenFlagsMask # NoValue
          THEN {BitwiseAnd(Identifier("flags"), Value(fef.OpenFlagsMask))}
          ELSE {})
    \cup (IF fef.CreateModeMask # NoValue
          THEN {BitwiseAnd(Identifier("mode"), Value(fef.CreateModeMask))}
          ELSE {})

\* the expression after is the expression before with each of the
\* comparisons put in front of it once, joined by AND
AndedOnce(before, after, comparisons) ==
    LET old == ConjunctList(before)
        new == ConjunctList(after)
        added == Len(new) - Len(old)
    IN  /\ added = Cardinality(comparisons)
        /\ SubSeq(new, added + 1, Len(new)) = old
        /\ {new[i] : i \in 1..added} = comparisons

\* C39: rewriteFileEventFilter leaves Filename, FilenamePattern,
\* OpenFlagsMask and CreateModeMask nil, with Filename, or without it
\* FilenamePattern, and the masks each ANDed once to FilterExpression;
\* rewriteSyscallEventFilter leaves Id nil and Arg0..Arg5 of an enter filter
\* or Ret of an exit filter nil, each ANDed once; a second call of either
\* changes nothing.
C39_RewritingCompleteAndIdempotent ==
    /\ rlast.op = "registerFileEvents"
       => \A i \in DOMAIN rlast.events :
             LET fef == rlast.events[i]
                 r == rewriteFileEventFilter(fef)
             IN  /\ r.Filename = NoValue
                 /\ r.FilenamePattern = NoValue
                 /\ r.OpenFlagsMask = NoValue
                 /\ r.CreateModeMask = NoValue
                 /\ r.Type = fef.Type
                 /\ AndedOnce(fef.FilterExpression, r.FilterExpression,
                              FileComparisons(fef))
                 /\ rewriteFileEventFilter(r) = r
    /\ rlast.op = "registerSyscallEvents"
       => \A i \in DOMAIN rlast.events :
             LET sef == rlast.events[i]
                 r == rewriteSyscallEventFilter(sef)
             IN  /\ r.Id = NoValue
                 /\ r.Type = "ENTER" => r.Args = NoArgs /\ r.Ret = sef.Ret
                 /\ r.Type = "EXIT" => r.Ret = NoValue /\ r.Args = sef.Args
                 /\ r.Type = sef.Type
                 /\ AndedOnce(sef.FilterExpression, r.FilterExpression,
                              SyscallComparisons(sef))
                 /\ rewriteSyscallEventFilter(r) = r

\* a file registration was given a filter with Filename and
\* FilenamePattern, of which only Filename was ANDed, and a filter with
\* Filename and CreateModeMask, of which both were
C39_Witness ==
    /\ rlast.op = "registerFileEvents"
    /\ \E i \in DOMAIN rlast.events :
          /\ rlast.events[i].Filename # NoValue
          /\ rlast.events[i].FilenamePattern # NoValue
          /\ ConjunctList(rewriteFileEventFilter(rlast.events[i]).FilterExpression)
                = <<Equal(Identifier("filename"), Value(rlast.events[i].Filename))>>
    /\ \E i \in DOMAIN rlast.events :
          /\ rlast.events[i].Filename # NoValue
          /\ rlast.events[i].CreateModeMask # NoValue
          /\ Len(ConjunctList(rewriteFileEventFilter(rlast.events[i]).FilterExpression)) = 2

====
